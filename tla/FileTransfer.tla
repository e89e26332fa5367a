---------------------------- MODULE FileTransfer ----------------------------
(***************************************************************************)
(* What the transfer of one provider file to its destination promises,     *)
(* whichever engine carries it: bytes are added to a fresh destination,    *)
(* and the destination is finalized only when every byte is present.  A    *)
(* failed attempt is discarded; another engine may then start over from    *)
(* an empty destination.                                                   *)
(***************************************************************************)
EXTENDS Naturals

CONSTANT Bytes        \* the positions of the file

VARIABLES dest,       \* the positions that hold the file's bytes
          file        \* "open", "published" or "removed"

\* A fresh destination: created, or truncated, with nothing in it.
Init == dest = {} /\ file = "open"

\* Bytes of the file land at the destination, in any order.
Land == /\ file = "open"
        /\ dest \subseteq dest'
        /\ dest' \subseteq Bytes
        /\ UNCHANGED file

\* The transfer is finalized: only as a whole.
Publish == /\ file = "open"
           /\ dest = Bytes
           /\ file' = "published"
           /\ UNCHANGED dest

\* The partial destination is discarded.
Discard == /\ file = "open"
           /\ file' = "removed"
           /\ UNCHANGED dest

\* A second engine starts with an empty destination of its own.
Reopen == /\ file = "removed"
          /\ file' = "open"
          /\ dest' = {}

Next == Land \/ Publish \/ Discard \/ Reopen

Spec == Init /\ [][Next]_<<dest, file>>
=============================================================================
