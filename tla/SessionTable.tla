---------------------------- MODULE SessionTable ----------------------------
(***************************************************************************)
(* What the daemon's session manager promises its clients: a set of live   *)
(* session ids and one of them as the default, changed only by whole       *)
(* operations.  A client that names no session always reaches a live one   *)
(* as long as any session lives.                                           *)
(***************************************************************************)
CONSTANTS
  Ids,    \* session ids, chosen by the user or generated
  NoId    \* the empty id: there is no default

VARIABLES live, default

tableVars == <<live, default>>

TableInit == live = {} /\ default = NoId

\* A session that finished starting becomes the default, whatever was before.
Add(x) ==
  /\ live' = live \cup {x}
  /\ default' = x

\* Another live session takes over from a default that goes.
Drop(x) ==
  /\ x \in live
  /\ live' = live \ {x}
  /\ IF default = x
     THEN IF live' = {} THEN default' = NoId ELSE default' \in live'
     ELSE UNCHANGED default

Choose(x) ==
  /\ x \in live
  /\ default' = x
  /\ UNCHANGED live

TableNext == \E x \in Ids : Add(x) \/ Drop(x) \/ Choose(x)

TableSpec == TableInit /\ [][TableNext]_tableVars

\* The default is live, and there is one whenever anything lives.
DefaultIsLive ==
  IF live = {} THEN default = NoId ELSE default \in live

=============================================================================
