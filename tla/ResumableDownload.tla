--------------------------- MODULE ResumableDownload ---------------------------
(***************************************************************************)
(* What the XDCC download promises whoever watches the file (addon.py      *)
(* stream polls it, Download.status announces its end): the file on disk   *)
(* is at all times a beginning of the pack, it grows chunk by chunk, and   *)
(* "fini" is announced only over a file that is long enough.  How often    *)
(* servers, peers and processes come and go in between does not show.      *)
(***************************************************************************)
EXTENDS Naturals, Sequences

CONSTANTS
  PackSize,   \* the chunks of the pack
  Enough      \* the fewest chunks that make more than 99.9 % of the pack,
              \* 1 .. PackSize

VARIABLES
  file,   \* the chunks on disk, in file order
  fini    \* the download announced its end

avars == <<file, fini>>

(* Chunk i of the pack is the number i. *)
Pack(n) == [i \in 1 .. n |-> i]

Init == file = <<>> /\ fini = FALSE

(* The next chunk arrives; it may be the one after which the end shows. *)
Receive ==
  /\ ~fini
  /\ Len(file) < PackSize
  /\ file' = Append(file, Len(file) + 1)
  /\ \/ fini' = FALSE
     \/ Len(file) + 1 >= Enough /\ fini' = TRUE

Finish ==
  /\ Len(file) >= Enough
  /\ fini' = TRUE
  /\ UNCHANGED file

(* The process is killed with its last chunk still in the write buffer. *)
LoseTail ==
  /\ ~fini
  /\ file # <<>>
  /\ file' = SubSeq(file, 1, Len(file) - 1)
  /\ UNCHANGED fini

(* The user asks for the same file again. *)
AskAgain ==
  /\ fini' = FALSE
  /\ UNCHANGED file

Next == Receive \/ Finish \/ LoseTail \/ AskAgain

Spec == Init /\ [][Next]_avars

(* The file is a beginning of the pack: no gap, no chunk twice.            *)
IsBeginning == Len(file) <= PackSize /\ file = Pack(Len(file))
==============================================================================
