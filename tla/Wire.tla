-------------------------------- MODULE Wire --------------------------------
(***************************************************************************)
(* The wire format of boost/asyncServer and boost/readAtLeastServer: a     *)
(* message is a head of two bytes that holds the length of its body, and   *)
(* the body.                                                               *)
(***************************************************************************)
EXTENDS Integers, Sequences

CONSTANTS
    Base,       \* bytes are 0 .. Base - 1; 256 in the program
    MaxLength,  \* MAX_LENGTH, of a body and of a session's array data
    MaxBytes    \* bytes a client sends at most (bounds the model)

ASSUME WireAssumption == Base \in Nat \ {0} /\ MaxLength \in Nat \ {0} /\ MaxBytes \in Nat

Byte == 0 .. Base - 1
HEAD_LENGTH == 2

\* network_to_host_short into a short: the upper half of its values is negative.
HeadValue(head) ==
    LET n == head[1] * Base + head[2]
    IN IF 2 * n < Base * Base THEN n ELSE n - Base * Base

\* msgNode(totalLen) makes new char[totalLen + 1]: an array of a negative size is
\* a bad_array_new_length, which no handler catches.
Throws(totalLen) == totalLen < -1

\* "bytes < n" of a size_t and an int: a negative int becomes the larger one.
SizeLess(bytes, n) == n < 0 \/ bytes < n

\* The write node of a body: host_to_network_short of its length and the body.
Frame(body) == <<Len(body) \div Base, Len(body) % Base>> \o body
=============================================================================
