-------------------------------- MODULE Stream --------------------------------
(***************************************************************************)
(* The stream route (addon.py): every call of it looks at the file, starts *)
(* a bot of its own or not, and, when it is to play, waits in a progress   *)
(* dialog until enough of the file is on disk.  Several calls for one pack *)
(* overlap: "Download" and then "Play", or "Play" twice.  A bot is seen    *)
(* from the file it writes; Grabator is the bot from inside.               *)
(*                                                                         *)
(* A chunk is a whole megabyte of the pack, chunk i is the number i, and 0 *)
(* is a hole.  A percentage is in tenths of a percent: 1000 is all of it.  *)
(***************************************************************************)
EXTENDS Integers, Sequences

CONSTANTS
  Calls,           \* the calls of the route for this pack
  PackSize,        \* the chunks of the pack
  Enough,          \* the fewest chunks with size / taille > 0.999
  ListedSize,      \* size, the megabytes the listing gives for the pack
  BufferPercent,   \* the setting bf_time, "Percent Loaded Before Play"
  Scaled           \* what b * (((size / 1420) * 2) / spd) may come to at the
                   \* speeds of a growing file

ASSUME StreamAssumption ==
  /\ PackSize \in Nat \ {0} /\ Enough \in 1 .. PackSize
  /\ ListedSize \in Nat \ {0}
  /\ BufferPercent \in 1 .. 100
  /\ Scaled \subseteq Nat \ {0}

VARIABLES
  pc,       \* of each call: "idle", "looking" (for the file), "found",
            \* "measuring", "buffering", or how it ended: "returned",
            \* "resolved", "cancelled", "raised"
  cancel,   \* cancel = 1
  xsize,    \* while measuring, the size when that began; 0 otherwise
  factor,   \* while buffering, the percentage to wait for; 0 otherwise
  bot,      \* of each call's bot: "none", "asking" for the pack, "creating"
            \* the file, "resuming" it, "receiving", "done" or "dead"
  mode,     \* while receiving, how it opened the file: "write" or "append"
  next,     \* the chunk it receives next; 0 when there is no transfer
  holds,    \* its open file is the one that has the name
  exists,   \* there is a file of that name
  file      \* its chunks

callvars == <<pc, cancel, xsize, factor>>
botvars == <<bot, mode, next, holds>>
diskvars == <<exists, file>>
vars == <<callvars, botvars, diskvars>>

Waiting == {"looking", "found", "measuring", "buffering"}
Ended == {"returned", "resolved", "cancelled", "raised"}
Working == {"asking", "creating", "resuming", "receiving"}

TypeOK ==
  /\ pc \in [Calls -> {"idle"} \cup Waiting \cup Ended]
  /\ cancel \in [Calls -> BOOLEAN]
  /\ xsize \in [Calls -> Nat]
  /\ factor \in [Calls -> Int] /\ \A c \in Calls : factor[c] <= 1000
  /\ bot \in [Calls -> {"none", "done", "dead"} \cup Working]
  /\ mode \in [Calls -> {"write", "append"}]
  /\ next \in [Calls -> Nat]
  /\ holds \in [Calls -> BOOLEAN]
  /\ exists \in BOOLEAN
  /\ file \in Seq(Nat)

Init ==
  /\ pc = [c \in Calls |-> "idle"]
  /\ cancel = [c \in Calls |-> FALSE]
  /\ xsize = [c \in Calls |-> 0]
  /\ factor = [c \in Calls |-> 0]
  /\ bot = [c \in Calls |-> "none"]
  /\ mode = [c \in Calls |-> "write"]
  /\ next = [c \in Calls |-> 0]
  /\ holds = [c \in Calls |-> FALSE]
  /\ exists = FALSE
  /\ file = <<>>
------------------------------------------------------------------------------
(* stream, up to the dialog.  "True" downloads, "size" (digits) plays,     *)
(* "False" is what a manually entered packet says.                         *)
Call(c, download) ==
  /\ pc[c] = "idle"
  /\ pc' = [pc EXCEPT ![c] = IF download = "size" THEN "looking" ELSE "returned"]
  /\ bot' = [bot EXCEPT ![c] =
               IF download = "True" \/ ~exists THEN "asking" ELSE @]
  /\ UNCHANGED <<cancel, xsize, factor, mode, next, holds, diskvars>>

(* while not os.path.exists(fstring): a look and, when it finds nothing,   *)
(* the cancel button.                                                      *)
Look(c) ==
  /\ pc[c] = "looking" /\ exists
  /\ pc' = [pc EXCEPT ![c] = "found"]
  /\ UNCHANGED <<cancel, xsize, factor, botvars, diskvars>>

CancelLooking(c) ==
  /\ pc[c] = "looking" /\ ~exists
  /\ pc' = [pc EXCEPT ![c] = "found"]
  /\ cancel' = [cancel EXCEPT ![c] = TRUE]
  /\ UNCHANGED <<xsize, factor, botvars, diskvars>>

(* os.path.getsize of a file that is not there ends the call. *)
Raise(c) ==
  /\ pc[c] \in {"found", "measuring", "buffering"} /\ ~exists
  /\ pc' = [pc EXCEPT ![c] = "raised"]
  /\ xsize' = [xsize EXCEPT ![c] = 0]
  /\ factor' = [factor EXCEPT ![c] = 0]
  /\ UNCHANGED <<cancel, botvars, diskvars>>

StartMeasuring(c) ==
  /\ pc[c] = "found" /\ exists
  /\ pc' = [pc EXCEPT ![c] = "measuring"]
  /\ xsize' = [xsize EXCEPT ![c] = Len(file)]
  /\ UNCHANGED <<cancel, factor, botvars, diskvars>>

(* The setting, scaled by the speed of the five seconds before, which is   *)
(* taken from bytes: while no whole megabyte came or went the file may     *)
(* have grown or shrunk a little.                                          *)
Measurements(growth) ==
  (IF growth = 0 THEN {10 * BufferPercent} ELSE {})
    \cup (IF growth >= 0 THEN Scaled ELSE {})
    \cup (IF growth <= 0 THEN {-scaled : scaled \in Scaled} ELSE {})

(* A definition X_f with a small f is a faulty X: it breaks a property of  *)
(* this module, and shows that the property can fail.                      *)
Capped_not(scaled) == scaled

(* 90 percent when the scaled setting is more than everything.             *)
Capped(scaled) == IF scaled <= 1000 THEN scaled ELSE 900

Measured(c) ==
  /\ pc[c] = "measuring" /\ exists
  /\ pc' = [pc EXCEPT ![c] = "buffering"]
  /\ \E scaled \in Measurements(Len(file) - xsize[c]) :
       factor' = [factor EXCEPT ![c] = Capped(scaled)]
  /\ xsize' = [xsize EXCEPT ![c] = 0]
  /\ UNCHANGED <<cancel, botvars, diskvars>>

(* status(size) > factor, where status is 100 * size / ListedSize and size *)
(* is in whole megabytes.                                                  *)
Exceeds(chunks, percentage) == 1000 * chunks > percentage * ListedSize
Reached(c) == Exceeds(Len(file), factor[c])

Buffered_deaf(c) ==
  /\ pc[c] = "buffering" /\ exists /\ Reached(c)
  /\ pc' = [pc EXCEPT ![c] = "resolved"]
  /\ factor' = [factor EXCEPT ![c] = 0]
  /\ UNCHANGED <<cancel, xsize, botvars, diskvars>>

(* The loop ends: set_resolved_url, unless the call was cancelled before.  *)
Buffered(c) ==
  /\ pc[c] = "buffering" /\ exists /\ Reached(c)
  /\ pc' = [pc EXCEPT ![c] = IF cancel[c] THEN "cancelled" ELSE "resolved"]
  /\ factor' = [factor EXCEPT ![c] = 0]
  /\ UNCHANGED <<cancel, xsize, botvars, diskvars>>

CancelBuffering(c) ==
  /\ pc[c] = "buffering" /\ exists /\ ~Reached(c)
  /\ pc' = [pc EXCEPT ![c] = "cancelled"]
  /\ cancel' = [cancel EXCEPT ![c] = TRUE]
  /\ factor' = [factor EXCEPT ![c] = 0]
  /\ UNCHANGED <<xsize, botvars, diskvars>>
------------------------------------------------------------------------------
(* The bot of a call (xbot.py), by what it does to the file.  DCC SEND: it *)
(* looks for the file, and creates it or asks for the rest.                *)
BotOffered(c) ==
  /\ bot[c] = "asking"
  /\ \/ /\ ~exists
        /\ bot' = [bot EXCEPT ![c] = "creating"]
        /\ UNCHANGED next
     \/ /\ exists
        /\ bot' = [bot EXCEPT ![c] = "resuming"]
        /\ next' = [next EXCEPT ![c] = Len(file) + 1]
  /\ UNCHANGED <<callvars, mode, holds, diskvars>>

(* open(self.filename, "wb") empties a file somebody created meanwhile. *)
BotCreates(c) ==
  /\ bot[c] = "creating"
  /\ bot' = [bot EXCEPT ![c] = "receiving"]
  /\ mode' = [mode EXCEPT ![c] = "write"]
  /\ next' = [next EXCEPT ![c] = 1]
  /\ holds' = [holds EXCEPT ![c] = TRUE]
  /\ exists' = TRUE
  /\ file' = <<>>
  /\ UNCHANGED callvars

(* DCC ACCEPT: open(self.filename, "ab"). *)
BotResumes(c) ==
  /\ bot[c] = "resuming"
  /\ bot' = [bot EXCEPT ![c] = "receiving"]
  /\ mode' = [mode EXCEPT ![c] = "append"]
  /\ holds' = [holds EXCEPT ![c] = TRUE]
  /\ exists' = TRUE
  /\ UNCHANGED <<callvars, next, file>>

(* A file written at its own place is padded by the system with a hole. *)
PutAt(chunks, n) ==
  [i \in 1 .. (IF n > Len(chunks) THEN n ELSE Len(chunks)) |->
     IF i = n THEN n ELSE IF i <= Len(chunks) THEN chunks[i] ELSE 0]

BotReceives(c) ==
  /\ bot[c] = "receiving" /\ next[c] <= PackSize
  /\ next' = [next EXCEPT ![c] = @ + 1]
  /\ file' = CASE ~holds[c] -> file
               [] holds[c] /\ mode[c] = "append" -> Append(file, next[c])
               [] OTHER -> PutAt(file, next[c])
  /\ UNCHANGED <<callvars, bot, mode, holds, exists>>

BotStops_anySize(c) ==
  /\ bot[c] = "receiving"
  /\ bot' = [bot EXCEPT ![c] = "done"]
  /\ next' = [next EXCEPT ![c] = 0]
  /\ mode' = [mode EXCEPT ![c] = "write"]
  /\ holds' = [holds EXCEPT ![c] = FALSE]
  /\ UNCHANGED <<callvars, diskvars>>

(* The transfer ends: done, or ask again for the rest; the size is that of *)
(* whatever file has the name now, and there may be none.                  *)
BotStops(c) ==
  /\ bot[c] = "receiving"
  /\ bot' = [bot EXCEPT ![c] = CASE ~exists -> "dead"
                                 [] exists /\ Len(file) >= Enough -> "done"
                                 [] OTHER -> "asking"]
  /\ next' = [next EXCEPT ![c] = 0]
  /\ mode' = [mode EXCEPT ![c] = "write"]
  /\ holds' = [holds EXCEPT ![c] = FALSE]
  /\ UNCHANGED <<callvars, diskvars>>

(* The thread ends early: an exception (see Grabator), or a first server   *)
(* connection that fails and strands it (see Reconnect).                   *)
BotDies(c) ==
  /\ bot[c] \in Working
  /\ bot' = [bot EXCEPT ![c] = "dead"]
  /\ next' = [next EXCEPT ![c] = 0]
  /\ mode' = [mode EXCEPT ![c] = "write"]
  /\ holds' = [holds EXCEPT ![c] = FALSE]
  /\ UNCHANGED <<callvars, diskvars>>

(* delete_file: the name goes, an open file lives on without it.           *)
Delete ==
  /\ exists
  /\ exists' = FALSE
  /\ file' = <<>>
  /\ holds' = [c \in Calls |-> FALSE]
  /\ UNCHANGED <<callvars, bot, mode, next>>

CallStep(c) ==
  \/ \E download \in {"True", "False", "size"} : Call(c, download)
  \/ Look(c) \/ CancelLooking(c) \/ Raise(c) \/ StartMeasuring(c)
  \/ Measured(c) \/ Buffered(c) \/ CancelBuffering(c)

BotStep(c) ==
  \/ BotOffered(c) \/ BotCreates(c) \/ BotResumes(c) \/ BotReceives(c)
  \/ BotStops(c) \/ BotDies(c)

NextKept == \E c \in Calls : CallStep(c) \/ BotStep(c)
Next == NextKept \/ Delete

(* The loops of a call keep turning. *)
CallFairness ==
  \A c \in Calls : WF_vars(Look(c) \/ StartMeasuring(c) \/ Measured(c) \/ Buffered(c) \/ Raise(c))

Spec == Init /\ [][Next]_vars /\ CallFairness

(* The runs in which nobody deletes the file. *)
KeptSpec == Init /\ [][NextKept]_vars /\ CallFairness
------------------------------------------------------------------------------
Download == INSTANCE ResumableDownload WITH fini <- \E c \in Calls : bot[c] = "done"

(* As long as one call is made, its bot keeps the promise of               *)
(* ResumableDownload whatever the dialog does.                             *)
BotKeepsPromise == Download!Spec

(* A call that was cancelled never hands the file to the player, not even  *)
(* when the file appears between the look and the cancel button and the    *)
(* loops go on.                                                            *)
CancelledNeverPlays == \A c \in Calls : pc[c] = "resolved" => ~cancel[c]

(* A percentage of the whole that a finished file does not exceed: the     *)
(* listing says a little more than the file has, or the percentage is 100. *)
BeyondTheFile(percentage) == percentage <= 1000 /\ ~Exceeds(Enough, percentage)

(* No call waits for ever over a finished download but for one reason: the *)
(* percentage it came to is one that "status <= factor" never lets the     *)
(* file exceed.  However fast, slow or backwards the file grew, it is not  *)
(* more than everything.                                                   *)
FinishedDownloadPlays ==
  \A c \in Calls :
    <>[](exists /\ Len(file) >= Enough /\ pc[c] \in Waiting)
      => <>[](pc[c] = "buffering" /\ BeyondTheFile(factor[c]))

(* "Percent Loaded Before Play", range 1 to 100 (settings.xml): when all   *)
(* is loaded, every percentage is, and the call plays or is cancelled.     *)
LoadedPlays ==
  \A c \in Calls : ~<>[](exists /\ Len(file) >= PackSize /\ pc[c] \in Waiting)

(* "Downloading File", says the dialog that a play call opens: the pack is *)
(* complete, or some bot is at work on it when the call has begun.         *)
PlayingDownloads ==
  [][\A c \in Calls : Call(c, "size") =>
       Len(file) >= Enough \/ \E d \in Calls : bot'[d] \in Working]_vars

(* "if not cancel": a cancelled call ends without resolving, and without   *)
(* an error.                                                               *)
CancelEndsQuietly == \A c \in Calls : cancel[c] => pc[c] # "raised"

(* "already exists.  Attempting to resume it" (xbot.py): a bot that finds  *)
(* the file of another call continues it, and the file stays a beginning   *)
(* of the pack.                                                            *)
FileIsBeginning == Download!IsBeginning
==============================================================================
