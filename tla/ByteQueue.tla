----------------------------- MODULE ByteQueue -----------------------------
(***************************************************************************)
(* What net/Buffer.h promises its users: a queue of bytes that is written  *)
(* at the back and read at the front, where the last bytes written can be  *)
(* taken back and bytes can be put before the first one.                   *)
(***************************************************************************)
EXTENDS Naturals, Sequences

CONSTANT Data   \* the byte strings that users write
VARIABLE content

Write(data) == content' = content \o data
Prepend(data) == content' = data \o content
Retrieve(n) == content' = SubSeq(content, n + 1, Len(content))
Unwrite(n) == content' = SubSeq(content, 1, Len(content) - n)

Next == \/ \E data \in Data : Write(data) \/ Prepend(data)
        \/ \E n \in 0..Len(content) : Retrieve(n) \/ Unwrite(n)

Spec == content = <<>> /\ [][Next]_content
=============================================================================
