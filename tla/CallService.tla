---------------------------- MODULE CallService ----------------------------
(***************************************************************************)
(* What the DAP client promises the handlers that call the adapter: every  *)
(* call ends once, either with the adapter's answer to its own request or  *)
(* with an error.  An answer is lost only if nobody waits for it any more  *)
(* or the connection is no longer whole, and only then, or by the timer, a *)
(* call fails.                                                             *)
(***************************************************************************)
EXTENDS Naturals

CONSTANTS
  Callers,    \* goroutines that issue requests
  Timeouts    \* TRUE when calls have a timer

VARIABLES
  at, call, got,      \* per caller: control, its request, what its last call returned
  last,               \* the last request number given out
  asked, answers,     \* requests the adapter has, answers that are on their way
  whole               \* the client is open, the adapter alive, the stream readable

serviceVars == <<at, call, got, last, asked, answers, whole>>

Nothing == [st |-> "none", req |-> 0]
Error   == [st |-> "error", req |-> 0]
Answer(n) == [st |-> "ok", req |-> n]

ServiceInit ==
  /\ at = [c \in Callers |-> "idle"] /\ call = [c \in Callers |-> 0]
  /\ got = [c \in Callers |-> Nothing]
  /\ last = 0 /\ asked = {} /\ answers = {} /\ whole = TRUE

End(c, r) ==
  /\ at' = [at EXCEPT ![c] = "idle"]
  /\ call' = [call EXCEPT ![c] = 0]
  /\ got' = [got EXCEPT ![c] = r]

Begin(c) ==
  /\ at[c] = "idle"
  /\ last' = last + 1
  /\ at' = [at EXCEPT ![c] = "writing"]
  /\ call' = [call EXCEPT ![c] = last + 1]
  /\ got' = [got EXCEPT ![c] = Nothing]
  /\ UNCHANGED <<asked, answers, whole>>

Refuse(c) ==
  /\ at[c] = "idle" /\ ~whole
  /\ last' = last + 1
  /\ End(c, Error)
  /\ UNCHANGED <<asked, answers, whole>>

\* A request reaches an adapter that lives.
Ask(c) ==
  /\ at[c] = "writing"
  /\ at' = [at EXCEPT ![c] = "waiting"]
  /\ \/ asked' = asked \cup {call[c]}
     \/ ~whole /\ UNCHANGED asked
  /\ UNCHANGED <<call, got, last, answers, whole>>

Reply(n) ==
  /\ asked' = asked \ {n} /\ answers' = answers \cup {n}
  /\ UNCHANGED <<at, call, got, last, whole>>

\* An answer serves one call, the one that asked.
Succeed(c) ==
  /\ at[c] = "waiting" /\ call[c] \in answers
  /\ answers' = answers \ {call[c]}
  /\ End(c, Answer(call[c]))
  /\ UNCHANGED <<last, asked, whole>>

Fail(c) ==
  /\ at[c] # "idle"
  /\ ~whole \/ (Timeouts /\ at[c] = "waiting")
  /\ End(c, Error)
  /\ UNCHANGED <<last, asked, answers, whole>>

Lose(n) ==
  /\ ~whole \/ \A c \in Callers : at[c] # "idle" => call[c] # n
  /\ answers' = answers \ {n}
  /\ UNCHANGED <<at, call, got, last, asked, whole>>

Break ==
  /\ whole' = FALSE
  /\ UNCHANGED <<at, call, got, last, asked, answers>>

ServiceNext ==
  \/ \E c \in Callers : Begin(c) \/ Refuse(c) \/ Ask(c) \/ Succeed(c) \/ Fail(c)
  \/ \E n \in asked : Reply(n)
  \/ \E n \in answers : Lose(n)
  \/ Break

ServiceSpec == ServiceInit /\ [][ServiceNext]_serviceVars

=============================================================================
