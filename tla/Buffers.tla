------------------------------ MODULE Buffers ------------------------------
(***************************************************************************)
(* The output and event buffers of a session (session.go, bufMu): two      *)
(* bounded logs that the event pump fills, one entry after the other, and  *)
(* that clients poll with `output` and `events`, passing the timestamp of  *)
(* the last entry they have seen as `since`.  The tail of one category is  *)
(* what a failed start quotes.                                             *)
(*                                                                         *)
(* Entries are numbered in the order in which they were recorded.  Text is *)
(* abstracted to its length.  A timestamp survives its formatting: both    *)
(* sides use RFC3339Nano.  What the wall clock does is a parameter.        *)
(***************************************************************************)
EXTENDS Integers, Sequences, FiniteSets

CONSTANTS
  MaxOutputEntries, MaxEventEntries,   \* sizes of the logs (4096 and 1024 in the code)
  Sent,         \* categories that the adapter uses; "" stands for none
  Sizes,        \* lengths of a piece of output
  Budgets,      \* values of maxBytes
  Tails,        \* values of the argument tail; 0 asks for everything
  Coarse,       \* may two entries get the same timestamp?
  MaxRecords    \* bound: events of the adapter

ASSUME BuffersAssumption ==
  /\ MaxOutputEntries \in Nat \ {0} /\ MaxEventEntries \in Nat \ {0}
  /\ Sent \subseteq {"", "stdout", "stderr", "console"} /\ Sizes \subseteq Nat /\ Budgets \subseteq Nat /\ Tails \subseteq Nat
  /\ Coarse \in BOOLEAN /\ MaxRecords \in Nat

VARIABLES
  outputs, evlog,    \* the logs
  recorded,          \* per log: how many entries it has had
  now,               \* the clock
  pump,              \* an output event of which only the event log knows so far
  follows,           \* the log that the client polls
  since, seen        \* its cursor, the entries it got

vars == <<outputs, evlog, recorded, now, pump, follows, since, seen>>

Logs       == {"output", "events"}
Categories == {"stdout", "stderr", "console"}
None       == [cat |-> "none", size |-> 0]

Init ==
  /\ outputs = <<>> /\ evlog = <<>>
  /\ recorded = [l \in Logs |-> 0]
  /\ now = 1 /\ pump = None
  /\ follows \in Logs /\ since = 0 /\ seen = <<>>

-----------------------------------------------------------------------------
(* The event pump.                                                         *)

\* The ring: the last max entries.
Keep(log, max) ==
  LET n == Len(log) IN IF n > max THEN SubSeq(log, n - max + 1, n) ELSE log

Tick == IF Coarse THEN now' \in {now, now + 1} ELSE now' = now + 1

Entry(l, cat, size) ==
  [no |-> recorded[l] + 1, ts |-> now', cat |-> cat, size |-> size]

\* Every event goes to the event log; one of output is the pump's next business.
RecordEvent ==
  /\ pump = None /\ recorded["events"] < MaxRecords
  /\ Tick
  /\ \/ /\ \E cat \in Sent, size \in Sizes : pump' = [cat |-> cat, size |-> size]
        /\ evlog' = Keep(Append(evlog, Entry("events", "output", 0)), MaxEventEntries)
     \/ /\ evlog' = Keep(Append(evlog, Entry("events", "other", 0)), MaxEventEntries)
        /\ UNCHANGED pump
  /\ recorded' = [recorded EXCEPT !["events"] = @ + 1]
  /\ UNCHANGED <<outputs, follows, since, seen>>

\* An empty category is "console".
RecordOutput ==
  /\ pump # None
  /\ Tick
  /\ LET cat == IF pump.cat = "" THEN "console" ELSE pump.cat
     IN  outputs' = Keep(Append(outputs, Entry("output", cat, pump.size)), MaxOutputEntries)
  /\ recorded' = [recorded EXCEPT !["output"] = @ + 1]
  /\ pump' = None
  /\ UNCHANGED <<evlog, follows, since, seen>>

-----------------------------------------------------------------------------
(* Polling.                                                                *)

\* A faulty variant: entries as old as the cursor come again.
NewerOrEqual(log, t) ==
  LET out[i \in 0..Len(log)] ==
        IF i = 0 THEN <<>>
        ELSE IF t # 0 /\ log[i].ts < t THEN out[i - 1] ELSE Append(out[i - 1], log[i])
  IN  out[Len(log)]

\* Only what is after `since`; no `since` at all gives everything.
Newer(log, t) ==
  LET out[i \in 0..Len(log)] ==
        IF i = 0 THEN <<>>
        ELSE IF t # 0 /\ log[i].ts <= t THEN out[i - 1] ELSE Append(out[i - 1], log[i])
  IN  out[Len(log)]

Last(log, tail) ==
  LET n == Len(log) IN IF tail > 0 /\ n > tail THEN SubSeq(log, n - tail + 1, n) ELSE log

Delivered(es) ==
  [i \in DOMAIN es |-> [no |-> es[i].no, ts |-> es[i].ts, last |-> i = Len(es)]]

\* The client moves its cursor to the last entry it got.
Poll(log) ==
  \E tail \in Tails :
    LET es == Last(Newer(log, since), tail)
    IN  /\ es # <<>>
        /\ since' = es[Len(es)].ts
        /\ seen' = seen \o Delivered(es)
        /\ UNCHANGED <<outputs, evlog, recorded, now, pump, follows>>

HandleOutput ==
  /\ follows = "output"
  /\ Poll(outputs)

HandleEvents ==
  /\ follows = "events"
  /\ Poll(evlog)

-----------------------------------------------------------------------------
(* tailByCategory: collected from the newest entry backwards.              *)

Category(e) == IF e.cat = "console" THEN "stderr" ELSE e.cat

\* A faulty variant: the budget is looked at only once it is exceeded.
TakenLate(log, want, max) ==
  LET back[i \in 0..Len(log)] ==
        IF i = 0 THEN [nos |-> {}, bytes |-> 0, done |-> FALSE]
        ELSE LET b == back[i - 1] e == log[Len(log) - i + 1] IN
             IF b.done \/ Category(e) # want THEN b
             ELSE [nos |-> b.nos \cup {e.no}, bytes |-> b.bytes + e.size,
                   done |-> b.bytes + e.size >= max]
  IN  back[Len(log)].nos

\* The entries taken after i steps back, their bytes, and whether the loop has
\* broken off.
Taken(log, want, max) ==
  LET back[i \in 0..Len(log)] ==
        IF i = 0 THEN [nos |-> {}, bytes |-> 0, done |-> FALSE]
        ELSE LET b == back[i - 1] e == log[Len(log) - i + 1] IN
             IF b.done \/ Category(e) # want THEN b
             ELSE IF b.bytes + e.size > max /\ b.bytes > 0 THEN [b EXCEPT !.done = TRUE]
             ELSE [nos |-> b.nos \cup {e.no}, bytes |-> b.bytes + e.size,
                   done |-> b.bytes + e.size >= max]
  IN  back[Len(log)].nos

-----------------------------------------------------------------------------
Next == RecordEvent \/ RecordOutput \/ HandleOutput \/ HandleEvents

Spec == Init /\ [][Next]_vars

Logged == [no : Nat, ts : Nat, cat : Categories \cup {"output", "other"}, size : Nat]

\* The logs keep their limits, and every entry of output has one of the three
\* categories the tails know and a size that output can have.
TypeOK ==
  /\ outputs \in Seq(Logged) /\ Len(outputs) <= MaxOutputEntries
  /\ evlog \in Seq(Logged) /\ Len(evlog) <= MaxEventEntries
  /\ \A i \in DOMAIN outputs : outputs[i].cat \in Categories /\ outputs[i].size \in Sizes
  /\ recorded \in [Logs -> 0..MaxRecords]
  /\ now \in Nat /\ pump \in {None} \cup [cat : Sent, size : Sizes]
  /\ follows \in Logs /\ since \in 0..now
  /\ seen \in Seq([no : Nat, ts : Nat, last : BOOLEAN])

\* A client that polls without `tail`, each time with its last timestamp, gets
\* entries in order and none twice, even when timestamps coincide.  The log it
\* follows holds all entries up to its limit, newest last, and of these the client
\* misses only what was recorded, after its poll, with the timestamp of the last
\* entry it got.
PollGetsAll ==
  LET log   == IF follows = "output" THEN outputs ELSE evlog
      max   == IF follows = "output" THEN MaxOutputEntries ELSE MaxEventEntries
      got(e) == \E k \in DOMAIN seen : \/ seen[k].no = e.no
                                       \/ seen[k].ts = e.ts /\ seen[k].last
  IN  /\ \A i, j \in DOMAIN seen : i < j => seen[i].no < seen[j].no
      /\ \A n \in 1..recorded[follows] : n + max > recorded[follows] =>
           \E i \in DOMAIN log : log[i].no = n /\ (log[i].ts <= since => got(log[i]))

\* The bytes of the entries of a category up to each position.
Upto(log, want) ==
  LET upto[i \in 0..Len(log)] ==
        IF i = 0 THEN 0 ELSE upto[i - 1] + (IF Category(log[i]) = want THEN log[i].size ELSE 0)
  IN  upto

\* The reference for tailByCategory: the entries of a category, from some point on,
\* that fit the budget; those before would not, or the budget is used up.
Fits(log, want, max, nos) ==
  LET from(k)  == {i \in k..Len(log) : Category(log[i]) = want}
      bytes(k) == Upto(log, want)[Len(log)] - Upto(log, want)[k - 1]
  IN  \E k \in 1..(Len(log) + 1) :
        /\ nos = {log[i].no : i \in from(k)}
        /\ bytes(k) <= max
        /\ \A j \in from(1) : j < k => \/ bytes(j) > max /\ bytes(k) > 0
                                       \/ bytes(k) >= max

\* An entry alone exceeds the budget.
Oversized(log, want, max) ==
  \E i \in DOMAIN log : Category(log[i]) = want /\ log[i].size > max

\* What a failed start quotes is "up to maxBytes worth of the most recent" output
\* (session.go:1128), and no less than fits, as long as no entry alone exceeds the
\* budget.  Beyond that the comment does not hold: see TailWithinBudget.
TailFits ==
  \A want \in {"stdout", "stderr"}, max \in Budgets :
    ~Oversized(outputs, want, max) => Fits(outputs, want, max, Taken(outputs, want, max))

\* What the comment says of every log.  It is not so: the newest entry that says
\* anything is quoted whole, however long it is.
TailWithinBudget ==
  \A want \in {"stdout", "stderr"}, max \in Budgets :
    Fits(outputs, want, max, Taken(outputs, want, max))

=============================================================================
