------------------------------ MODULE SeqFile ------------------------------
(***************************************************************************)
(* What the readers of a package file on a FAT card rely on: an open file  *)
(* has one position, a seek moves it anywhere up to the end, and a read    *)
(* either hands out exactly the bytes that follow the position and moves   *)
(* past them, or refuses and leaves the position where it was.             *)
(***************************************************************************)
EXTENDS Naturals, Sequences

VARIABLES content,  \* the bytes of the file
          pos,      \* the position in the file
          out       \* what the last call handed out

vars == <<content, pos, out>>

Done == [got |-> <<>>, ok |-> TRUE]
Refused == [got |-> <<>>, ok |-> FALSE]

Init == pos = 0 /\ out = Done

Open ==
    /\ pos' = 0
    /\ out' = Done
    /\ UNCHANGED content

Seek ==
    /\ pos' \in 0 .. Len(content)
    /\ out' = Done
    /\ UNCHANGED content

Read ==
    \E n \in 0 .. (Len(content) - pos) :
        /\ pos' = pos + n
        /\ out' = [got |-> SubSeq(content, pos + 1, pos + n), ok |-> TRUE]
        /\ UNCHANGED content

Refuse ==
    /\ out' = Refused
    /\ UNCHANGED <<content, pos>>

Next == Open \/ Seek \/ Read \/ Refuse

Spec == Init /\ [][Next]_vars
=============================================================================
