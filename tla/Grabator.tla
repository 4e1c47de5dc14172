------------------------------- MODULE Grabator -------------------------------
(***************************************************************************)
(* The download bot (xbot.py, Grabator): the CTCP negotiation with the     *)
(* XDCC bot that has the pack, the DCC transfer, the file on disk and the  *)
(* auto resume, on top of the bot thread of Reconnect.  Every step of this *)
(* module is a step of Reconnect or leaves its variables alone.            *)
(*                                                                         *)
(* The pack is PackSize chunks, chunk i is the number i, and one chunk is  *)
(* what the write buffer of the file holds.  A line the server has not     *)
(* delivered when the connection goes is lost.                             *)
(***************************************************************************)
EXTENDS Naturals, Sequences, SequencesExt

CONSTANTS
  PackSize,           \* tailleEnOctets, in chunks
  Enough,             \* the fewest chunks with size / taille > 0.999
  TransfersPerUser,   \* how many transfers the XDCC bot runs for one user
  SecondChannel

ASSUME PackAssumption ==
  /\ PackSize \in Nat \ {0}
  /\ Enough \in 1 .. PackSize
  /\ TransfersPerUser \in Nat \ {0}
  /\ SecondChannel \in BOOLEAN

VARIABLES
  \* the bot thread, as in Reconnect
  thread, conn, link, checkScheduled, delayed, due, requests,
  \* the Grabator
  position,   \* self.position
  received,   \* self.received_bytes
  handle,     \* self.file: "none" yet, "open", "dirty" (open, with a chunk
              \* in its write buffer) or "closed"
  streams,    \* the open DCC connections, oldest first, each the chunk it
              \* delivers next
  current,    \* self.dcc is open; it is the last of streams
  fini,       \* objetDL.status = "fini"
  \* the disk
  exists,     \* the file self.filename exists
  file,       \* its chunks
  \* the XDCC bot and the server in between
  asked,      \* it has received a request it has not answered
  offer,      \* the CTCP under way to the bot: "none", "send" or "accept"
  resumeAt    \* the position of the last RESUME it received

rvars == <<thread, conn, link, checkScheduled, delayed, due, requests>>
bvars == <<position, received, handle, streams, current, fini>>
dvars == <<exists, file>>
pvars == <<asked, offer, resumeAt>>
vars == <<rvars, bvars, dvars, pvars>>

R == INSTANCE Reconnect

TransferTypeOK ==
  /\ position \in Nat
  /\ received \in Nat
  /\ handle \in {"none", "open", "dirty", "closed"}
  /\ streams \in Seq(Nat)
  /\ current \in BOOLEAN /\ (current => streams # <<>>)
  /\ fini \in BOOLEAN
  /\ exists \in BOOLEAN
  /\ file \in Seq(Nat)
  /\ asked \in BOOLEAN
  /\ offer \in {"none", "send", "accept"}
  /\ resumeAt \in Nat

TypeOK == R!TypeOK /\ TransferTypeOK

Init ==
  /\ R!Init
  /\ position = 0 /\ received = 0 /\ handle = "none"
  /\ streams = <<>> /\ current = FALSE /\ fini = FALSE
  /\ exists = FALSE /\ file = <<>>
  /\ asked = FALSE /\ offer = "none" /\ resumeAt = 0

(* What was under way over the server connection goes with it. *)
ForgetPeer ==
  /\ asked' = FALSE
  /\ offer' = "none"
  /\ resumeAt' = 0

PeerSeesLink == IF conn' = "down" THEN ForgetPeer ELSE UNCHANGED pvars
------------------------------------------------------------------------------
(* The steps of the bot thread that the transfer has no part in. *)
Start == R!Start /\ PeerSeesLink /\ UNCHANGED <<bvars, dvars>>
LinkBreaks == R!LinkBreaks /\ UNCHANGED <<bvars, dvars, pvars>>
NoticeHangup == R!NoticeHangup /\ PeerSeesLink /\ UNCHANGED <<bvars, dvars>>
HandlerSendFails ==
  R!HandlerSendFails /\ PeerSeesLink /\ UNCHANGED <<bvars, dvars>>
OnWelcome == R!OnWelcome /\ PeerSeesLink /\ UNCHANGED <<bvars, dvars>>
Tick == R!Tick /\ UNCHANGED <<bvars, dvars, pvars>>
RunCheck == R!RunCheck /\ PeerSeesLink /\ UNCHANGED <<bvars, dvars>>

(* download(): the notice "xdcc send" reaches the XDCC bot when the server *)
(* relays it: over a link that is up, for a bot that is registered.        *)
RunDownload ==
  /\ R!RunDownload
  /\ UNCHANGED <<bvars, dvars>>
  /\ IF conn' = "welcomed" /\ link = "up"
     THEN asked' = TRUE /\ UNCHANGED <<offer, resumeAt>>
     ELSE PeerSeesLink

(* The XDCC bot answers a request with DCC SEND, unless it has its limit   *)
(* of transfers for this user, or ignores it.                              *)
PeerDrops ==
  /\ asked /\ link = "up" /\ offer = "none"
  /\ asked' = FALSE
  /\ UNCHANGED <<rvars, bvars, dvars, offer, resumeAt>>

PeerAnswers ==
  \/ /\ asked /\ link = "up" /\ offer = "none"
     /\ Len(streams) < TransfersPerUser
     /\ asked' = FALSE
     /\ offer' = "send"
     /\ UNCHANGED <<rvars, bvars, dvars, resumeAt>>
  \/ Len(streams) >= TransfersPerUser /\ PeerDrops

PeerIgnores == Len(streams) < TransfersPerUser /\ PeerDrops
------------------------------------------------------------------------------
(* dcc_connect of a stream that starts behind chunk n; when it fails the   *)
(* DCCConnectionError leaves the handler and ends the thread.              *)
DccConnect(n) ==
  \/ /\ streams' = Append(streams, n + 1)
     /\ current' = TRUE
     /\ UNCHANGED rvars
  \/ /\ R!HandlerRaises
     /\ UNCHANGED <<streams, current>>

(* on_ctcp, DCC SEND, no such file: create it and connect.  The position   *)
(* of an earlier resume is kept.                                           *)
OnSendNew ==
  /\ R!Running /\ R!Connected /\ offer = "send" /\ ~exists
  /\ exists' = TRUE
  /\ file' = <<>>
  /\ handle' = "open"
  /\ offer' = "none"
  /\ DccConnect(0)
  /\ UNCHANGED <<position, received, fini, asked, resumeAt>>

(* on_ctcp, DCC SEND, the file is there: ask for the rest of it.  The XDCC *)
(* bot accepts what reaches it; over a broken link the reply is lost, or   *)
(* fails and disconnects.                                                  *)
OnSendResume ==
  /\ R!Running /\ R!Connected /\ offer = "send" /\ exists
  /\ position' = Len(file)
  /\ \/ /\ link = "up"
        /\ offer' = "accept"
        /\ resumeAt' = Len(file)
        /\ UNCHANGED <<rvars, asked>>
     \/ /\ link = "broken"
        /\ offer' = "none"
        /\ UNCHANGED <<rvars, asked, resumeAt>>
     \/ /\ link = "broken"
        /\ R!HandlerDisconnects
        /\ ForgetPeer
  /\ UNCHANGED <<received, handle, streams, current, fini, dvars>>

(* A definition X_f with a small f is a faulty X: it breaks a property of  *)
(* this module, and shows that the property can fail.                      *)
OnAccept_restarts ==
  /\ R!Running /\ R!Connected /\ offer = "accept"
  /\ handle' = "open"
  /\ exists' = TRUE
  /\ offer' = "none"
  /\ DccConnect(received)
  /\ UNCHANGED <<position, received, fini, file, asked, resumeAt>>

(* on_ctcp, DCC ACCEPT: open for appending, wherever the file ends now.    *)
OnAccept ==
  /\ R!Running /\ R!Connected /\ offer = "accept"
  /\ handle' = "open"
  /\ exists' = TRUE
  /\ offer' = "none"
  /\ DccConnect(resumeAt)
  /\ UNCHANGED <<position, received, fini, file, asked, resumeAt>>

(* The branches of on_ctcp, by the CTCP tag and the first word behind it.  *)
CtcpBranch(tag, word) ==
  CASE tag = "VERSION" -> "reply"
    [] tag = "PING" -> "reply"
    [] tag \notin {"VERSION", "PING"} /\ word = "SEND" -> "send"
    [] tag \notin {"VERSION", "PING"} /\ word = "ACCEPT" -> "accept"
    [] tag \notin {"VERSION", "PING"} /\ word = "ACTION" -> "nothing"
    [] OTHER -> "raise"

(* Any other CTCP somebody sends the bot or its channel.  The replies that *)
(* fail are in HandlerSendFails; the bare raise ends the thread.           *)
OnCtcpOther(tag, word) ==
  /\ R!Running /\ R!Connected
  /\ CtcpBranch(tag, word) = "raise"
  /\ R!HandlerRaises
  /\ UNCHANGED <<bvars, dvars, pvars>>

(* The first words of the CTCPs that are neither SEND nor ACCEPT: a DCC    *)
(* CHAT, and an ACTION ("/me waves") in the channel.                       *)
OtherCtcp == {<<"DCC", "CHAT">>, <<"ACTION", "waves">>}
------------------------------------------------------------------------------
OnDccDisconnect_anySize(chunks) ==
  /\ handle' = "closed"
  /\ fini' = TRUE
  /\ R!HandlerDies
  /\ PeerSeesLink

OnDccDisconnect_more(chunks) ==
  /\ handle' = "closed"
  /\ IF Len(chunks) > Enough
     THEN fini' = TRUE /\ R!HandlerDies
     ELSE /\ UNCHANGED fini
          /\ IF R!Connected THEN R!HandlerDisconnects ELSE UNCHANGED rvars
  /\ PeerSeesLink

OnDccDisconnect_stays(chunks) ==
  /\ handle' = "closed"
  /\ IF Len(chunks) >= Enough
     THEN fini' = TRUE /\ R!HandlerDies
     ELSE UNCHANGED <<fini, rvars>>
  /\ PeerSeesLink

(* on_dcc_disconnect once the chunks are on disk: the file decides whether *)
(* the bot is done and dies, or leaves the server to resume later.         *)
OnDccDisconnect(chunks) ==
  /\ handle' = "closed"
  /\ IF Len(chunks) >= Enough
     THEN /\ fini' = TRUE
          /\ R!HandlerDies
     ELSE /\ UNCHANGED fini
          /\ IF R!Connected THEN R!HandlerDisconnects ELSE UNCHANGED rvars
  /\ PeerSeesLink

CloseStream_keepsDcc(i) ==
  /\ streams' = RemoveAt(streams, i)
  /\ UNCHANGED current

CloseStream(i) ==
  /\ streams' = RemoveAt(streams, i)
  /\ current' = (current /\ i # Len(streams))

(* A DCC connection ends: the XDCC bot has sent everything, or it is cut.  *)
DccEnds(i) ==
  /\ R!Running
  /\ CloseStream(i)
  /\ OnDccDisconnect(file)
  /\ UNCHANGED <<position, received, dvars>>

(* on_dccmsg with the handle open: write, count, acknowledge on self.dcc.  *)
(* A failing acknowledgement disconnects self.dcc within the handler; one  *)
(* on a closed self.dcc raises.                                            *)
DccData(i) ==
  /\ R!Running /\ handle \in {"open", "dirty"}
  /\ streams[i] <= PackSize
  /\ file' = Append(file, streams[i])
  /\ received' = received + 1
  /\ UNCHANGED <<position, exists>>
  /\ \/ /\ current
        /\ streams' = [streams EXCEPT ![i] = @ + 1]
        /\ handle' = "dirty"
        /\ UNCHANGED <<rvars, current, fini, pvars>>
     \/ /\ current
        /\ streams' = Front([streams EXCEPT ![i] = @ + 1])
        /\ current' = FALSE
        /\ OnDccDisconnect(file')
     \/ /\ ~current
        /\ R!HandlerRaises
        /\ UNCHANGED <<streams, current, handle, fini, pvars>>

(* on_dccmsg after another stream has closed the file: write raises. *)
DccDataClosed(i) ==
  /\ R!Running /\ handle = "closed"
  /\ streams[i] <= PackSize
  /\ R!HandlerRaises
  /\ UNCHANGED <<bvars, dvars, pvars>>

(* A handler raises for a reason that is not modelled (a payload shlex     *)
(* cannot split, a stray ACCEPT).                                          *)
HandlerRaises == R!HandlerRaises /\ UNCHANGED <<bvars, dvars, pvars>>

(* Kodi is killed while the last chunk is in the buffer of self.file.      *)
Killed ==
  /\ handle = "dirty"
  /\ R!HandlerRaises
  /\ file' = Front(file)
  /\ UNCHANGED <<bvars, exists, pvars>>

Relaunch ==
  /\ R!Relaunch
  /\ position' = 0
  /\ received' = 0
  /\ handle' = "none"
  /\ streams' = <<>>
  /\ current' = FALSE
  /\ fini' = FALSE
  /\ ForgetPeer
  /\ UNCHANGED dvars

HelpfulNext ==
  \/ Start \/ LinkBreaks \/ NoticeHangup \/ HandlerSendFails
  \/ OnWelcome \/ Tick \/ RunCheck \/ RunDownload
  \/ PeerAnswers
  \/ OnSendNew \/ OnSendResume \/ OnAccept
  \/ \E c \in OtherCtcp : OnCtcpOther(c[1], c[2])
  \/ \E i \in DOMAIN streams : DccData(i) \/ DccDataClosed(i) \/ DccEnds(i)
  \/ HandlerRaises \/ Killed
  \/ Relaunch

Next == HelpfulNext \/ PeerIgnores

Spec == Init /\ [][Next]_vars

(* The loop of the reactor goes on as in Reconnect; the server relays what *)
(* it is sent, the XDCC bot sends what it offered and closes behind it;    *)
(* and the user asks for the file again whenever the thread has ended.     *)
Fairness ==
  /\ WF_vars(Start) /\ WF_vars(Tick) /\ WF_vars(NoticeHangup)
  /\ WF_vars(RunCheck) /\ WF_vars(RunDownload)
  /\ WF_vars(OnWelcome)
  /\ WF_vars(PeerAnswers)
  /\ WF_vars(OnSendNew \/ OnSendResume \/ OnAccept)
  /\ WF_vars(\E i \in DOMAIN streams :
                DccData(i) \/ DccDataClosed(i) \/ DccEnds(i))
  /\ WF_vars(Relaunch)

(* The bot never repeats a request that got no answer, so nothing can be   *)
(* promised unless the XDCC bot answers each one it has room for.          *)
HelpfulSpec == Init /\ [][HelpfulNext]_vars /\ Fairness
------------------------------------------------------------------------------
Download == INSTANCE ResumableDownload

(* The file on disk is at all times a beginning of the pack: whatever      *)
(* stops a transfer (a cut, a lost server, a crash with a chunk in the     *)
(* buffer), the next one continues where the file ends (on_ctcp SEND and   *)
(* ACCEPT), provided the XDCC bot runs one transfer per user.              *)
FileIsBeginning == Download!IsBeginning

(* The bot keeps the promise of ResumableDownload: the file only grows, by *)
(* the chunk it lacks, and "fini" is announced over a file that is long    *)
(* enough (on_dcc_disconnect).                                             *)
ImplementsDownload == Download!Spec

(* Auto resume: when a transfer ends short of the pack and the thread goes *)
(* on, the bot is off the server with a reconnect check pending, so that   *)
(* on_welcome will ask for the pack again (on_dcc_disconnect,              *)
(* _on_disconnect); also when the server was lost before.                  *)
ShortTransferIsRetried ==
  [][Len(streams') < Len(streams) /\ Len(file') < Enough /\ thread' = "running"
       => conn' = "down" /\ checkScheduled']_vars

(* What the world does to a download: a server that cannot be reached or   *)
(* goes away, a transfer that cannot be set up or is cut, a thread that    *)
(* raises or is killed.                                                    *)
DialFails == (Start \/ RunCheck) /\ ~R!Connected'
SetUpFails == (OnSendNew \/ OnAccept) /\ thread' = "crashed"
Cut(i) ==
  /\ streams[i] <= PackSize
  /\ \/ DccEnds(i)
     \/ DccData(i) /\ Len(streams') < Len(streams)

Trouble ==
  \/ LinkBreaks \/ DialFails \/ SetUpFails \/ HandlerRaises \/ Killed
  \/ \E c \in OtherCtcp : OnCtcpOther(c[1], c[2])
  \/ \E i \in DOMAIN streams : Cut(i)

Stranded == R!Running /\ conn = "never"

(* However often the server was lost, the transfer cut and the bot killed  *)
(* before: once the trouble is over, the pack is announced finished, each  *)
(* time the user asks for it (on_welcome, on_ctcp, on_dcc_disconnect).     *)
(* The bot whose first dial failed is the exception.                       *)
DownloadFinishes == <>[][~Trouble]_vars => []<>(fini \/ Stranded)

(* "synchro des infos avec le programme principal" (on_dccmsg): what the   *)
(* bot reports and acknowledges, position + received_bytes, is what is on  *)
(* disk.                                                                   *)
ReportedIsOnDisk ==
  R!Running /\ streams # <<>> => position + received = Len(file)

(* on_ctcp logs "Doing Nothing" for an ACTION: it does not end the thread. *)
ActionDoesNothing == [][OnCtcpOther("ACTION", "waves") => R!Running']_vars
==============================================================================
