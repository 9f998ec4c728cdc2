------------------------------ MODULE PlainFile ------------------------------
(***************************************************************************)
(* What a visitor is promised of one stored file: it is a sequence of      *)
(* bytes, a response announces a part of it and then carries the bytes of  *)
(* that part in order, or breaks off.  Byte i of the file is the number i. *)
(* FileChunks implements this for one file in bytes, and EntryStore for    *)
(* each of its files, with a chunk in the place of a byte.                 *)
(***************************************************************************)
EXTENDS Integers, Sequences

CONSTANTS
  Readers,  \* goroutines that serve the file
  NULL

VARIABLES
  length,   \* the file's length in bytes, NULL while there is no file
  response  \* what each goroutine is sending

vars == <<length, response>>

\* of: the length of the file that was found; start, want: the part that has
\* been announced; sent: its bytes so far.
Response == [at: {"none", "found", "sending"}, of: Nat, start: Nat, want: Nat,
             sent: Seq(Nat)]

NoResponse == [at |-> "none", of |-> 0, start |-> 0, want |-> 0, sent |-> <<>>]

Init ==
  /\ length = NULL
  /\ response = [r \in Readers |-> NoResponse]

Store ==
  /\ length = NULL
  /\ length' \in Nat \ {0}
  /\ UNCHANGED response

Remove ==
  /\ length # NULL
  /\ length' = NULL
  /\ UNCHANGED response

Find(r) ==
  /\ response[r].at = "none"
  /\ length # NULL
  /\ response' = [response EXCEPT ![r].at = "found", ![r].of = length]
  /\ UNCHANGED length

\* A part, and after it perhaps another one.
Announce(r) ==
  /\ \/ response[r].at = "found"
     \/ response[r].at = "sending" /\ Len(response[r].sent) = response[r].want
  /\ \E start, want \in 0..response[r].of :
       /\ start + want <= response[r].of
       /\ response' = [response EXCEPT ![r].at = "sending", ![r].start = start,
                                       ![r].want = want, ![r].sent = <<>>]
  /\ UNCHANGED length

\* The next bytes of the part, never more than were announced.
Send(r) ==
  /\ response[r].at = "sending"
  /\ \E n \in 1..response[r].want - Len(response[r].sent) :
       response' = [response EXCEPT ![r].sent =
         @ \o [i \in 1..n |-> response[r].start + Len(@) + i - 1]]
  /\ UNCHANGED length

End(r) ==
  /\ response[r].at # "none"
  /\ response' = [response EXCEPT ![r] = NoResponse]
  /\ UNCHANGED length

\* The server stops, and with it every response.
Crash ==
  /\ response' = [r \in Readers |-> NoResponse]
  /\ UNCHANGED length

Next ==
  \/ Store
  \/ Remove
  \/ Crash
  \/ \E r \in Readers : Find(r) \/ Announce(r) \/ Send(r) \/ End(r)

Spec == Init /\ [][Next]_vars

=============================================================================
