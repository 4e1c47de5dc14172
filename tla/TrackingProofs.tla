---------------------------- MODULE TrackingProofs ----------------------------
(* Theorems about Tracking, for any clients, channels and nicknames.       *)
EXTENDS Tracking, TLAPS, FiniteSetTheorems, SequenceTheorems

ConnTypes ==
  /\ link \in [Clients -> {"off", "open", "quit", "left", "raised", "cut"}]
  /\ sendQueue \in [Clients -> Seq(Message)]
  /\ wire \in [Clients -> Seq(Message)]
  /\ asking \in [Clients -> Nicks \cup {NoNick}]
  /\ realNick \in [Clients -> Nicks]
  /\ welcomed \in [Clients -> BOOLEAN]

ServerTypes ==
  /\ owner \in [Nicks -> Clients \cup {NoClient}]
  /\ members \in [Channels -> SUBSET Clients]
  /\ nick \in [Clients -> Nicks \cup {NoNick}]
  /\ joined \in [Clients -> SUBSET Channels]

TrackerTypes ==
  /\ channels \in [Clients -> SUBSET Channels]
  /\ users \in [Clients -> [Channels -> SUBSET Nicks]]
  /\ failed \in SUBSET Clients
  /\ hasty \in BOOLEAN

LEMMA TypeParts == TypeOK <=> ConnTypes /\ ServerTypes /\ TrackerTypes
BY DEF TypeOK, ConnTypes, ServerTypes, TrackerTypes

(* A bot before its welcome is in one of four places: its NICK is on the     *)
(* way, refused, accepted with the welcome queued, or with the welcome sent. *)
Only(s, t) == \E n \in Nicks : s = <<[type |-> t, who |-> n]>>

Registering(c) ==
  \/ /\ asking[c] \in {0, 1} /\ wire[c] = <<>> /\ sendQueue[c] = <<>>
     /\ nick[c] = NoNick
  \/ /\ asking[c] = NoNick /\ Only(wire[c], "inuse") /\ sendQueue[c] = <<>>
     /\ nick[c] = NoNick
  \/ /\ asking[c] = NoNick /\ wire[c] = <<>> /\ Only(sendQueue[c], "welcome")
     /\ nick[c] # NoNick
  \/ /\ asking[c] = NoNick /\ Only(wire[c], "welcome") /\ sendQueue[c] = <<>>
     /\ nick[c] # NoNick

(* What both ends of a connection know of each other, so that a client is in *)
(* a channel only with a nickname.                                           *)
Good(c) ==
  /\ link[c] \in {"off", "quit", "left"} =>
       wire[c] = <<>> /\ asking[c] = NoNick /\ ~welcomed[c]
  /\ link[c] # "open" => sendQueue[c] = <<>>
  /\ link[c] \in {"off", "cut"} => nick[c] = NoNick
  /\ link[c] = "open" /\ welcomed[c] => nick[c] # NoNick
  /\ Waiting(c) => /\ Registering(c) /\ realNick[c] = 0
                   /\ \A ch \in Channels : c \notin members[ch]

AllGood == \A c \in Clients : Good(c)

IInv == TypeOK /\ ServerAgrees /\ AllGood

(* The parts of IInv after a step that concerns one client. *)
LEMMA Together ==
  ASSUME ConnTypes', ServerTypes', TrackerTypes', ServerAgrees',
         NEW c \in Clients, Good(c)', \A d \in Clients \ {c} : Good(d)'
  PROVE  IInv'
BY DEF TypeOK, ConnTypes, ServerTypes, TrackerTypes, IInv, AllGood

LEMMA NickFacts == 0 \in Nicks /\ 1 \in Nicks /\ 0 < Longest /\ NoNick \notin Nicks
BY TrackingAssumption DEF Nicks

LEMMA InitIInv == Init => IInv
<1> SUFFICES ASSUME Init PROVE IInv
  OBVIOUS
<1>1. ConnTypes /\ ServerTypes /\ TrackerTypes
  <2>1. <<>> \in Seq(Message)
    OBVIOUS
  <2>2. ConnTypes
    BY <2>1, NickFacts DEF Init, ConnTypes
  <2>3. ServerTypes
    BY DEF Init, ServerTypes
  <2> QED
    BY <2>2, <2>3 DEF Init, TrackerTypes
<1>2. ServerAgrees
  BY DEF Init, ServerAgrees
<1>3. AllGood
  BY DEF Init, AllGood, Good, Waiting
<1> QED
  BY <1>1, <1>2, <1>3, TypeParts DEF IInv

-------------------------------------------------------------------------------
(* Messages. *)
LEMMA MessageTypes ==
  /\ \A n \in Nicks : /\ [type |-> "welcome", who |-> n] \in Message
                      /\ [type |-> "inuse", who |-> n] \in Message
                      /\ [type |-> "quit", who |-> n] \in Message
  /\ \A n, k \in Nicks : [type |-> "nick", who |-> n, to |-> k] \in Message
  /\ \A n \in Nicks, ch \in Channels :
       /\ [type |-> "join", who |-> n, ch |-> ch] \in Message
       /\ [type |-> "part", who |-> n, ch |-> ch] \in Message
  /\ \A ch \in Channels, us \in SUBSET Nicks :
       [type |-> "names", ch |-> ch, who |-> us] \in Message
BY DEF Message

LEMMA MessageFields ==
  ASSUME NEW m \in Message
  PROVE  /\ m.type \in {"welcome", "join", "part", "nick", "quit"} => m.who \in Nicks
         /\ m.type = "nick" => m.to \in Nicks
         /\ m.type \in {"join", "part", "names"} => m.ch \in Channels
         /\ m.type = "names" => m.who \in SUBSET Nicks
BY DEF Message

(* A message to those who share a channel reaches nobody who is in none.     *)
LEMMA ToldTypes ==
  ASSUME IInv, NEW c \in Clients, NEW m, nick[c] # NoNick => m \in Message
  PROVE  /\ Told(c, m) \in [Clients -> Seq(Message)]
         /\ \A d \in Clients : \/ Told(c, m)[d] = sendQueue[d]
                               \/ /\ link[d] = "open"
                                  /\ \E ch \in Channels : d \in members[ch]
<1>1. ConnTypes /\ ServerTypes
  BY TypeParts DEF IInv
<1> SUFFICES ASSUME NEW d \in Clients
             PROVE  /\ Told(c, m)[d] \in Seq(Message)
                    /\ \/ Told(c, m)[d] = sendQueue[d]
                       \/ /\ link[d] = "open"
                          /\ \E ch \in Channels : d \in members[ch]
  BY DEF Told
<1> DEFINE n == Cardinality(Shared(c, d))
           more == [i \in 1 .. n |-> m]
<1>2. sendQueue[d] \in Seq(Message)
  BY <1>1 DEF ConnTypes
<1>3. Shared(c, d) \subseteq Channels
  BY <1>1 DEF Shared, ServerTypes
<1>4. n \in Nat
  BY <1>3, TrackingAssumption, FS_Subset, FS_CardinalityType
<1>5. CASE Shared(c, d) = {}
  <2>1. n = 0
    BY <1>5, FS_EmptySet
  <2>2. more = <<>>
    BY <2>1
  <2>3. sendQueue[d] \o more = sendQueue[d]
    BY <1>2, <2>2, ConcatEmptySeq
  <2> QED
    BY <1>2, <2>3 DEF Told
<1>6. CASE Shared(c, d) # {}
  <2>1. PICK ch \in Channels : {c, d} \subseteq members[ch]
    BY <1>3, <1>6 DEF Shared
  <2>2. m \in Message
    BY <2>1 DEF IInv, ServerAgrees
  <2>3. more \in Seq(Message)
    BY <1>4, <2>2
  <2>4. sendQueue[d] \o more \in Seq(Message)
    BY <1>2, <2>3
  <2> QED
    BY <1>2, <2>1, <2>4 DEF Told
<1> QED
  BY <1>5, <1>6

(* Who is not concerned stays as it is; who is in a channel may get a        *)
(* message.                                                                  *)
Same(d) ==
  /\ link'[d] = link[d]
  /\ wire'[d] = wire[d]
  /\ asking'[d] = asking[d]
  /\ realNick'[d] = realNick[d]
  /\ welcomed'[d] = welcomed[d]
  /\ nick'[d] = nick[d]

LEMMA SameGood ==
  ASSUME IInv, NEW d \in Clients, Same(d),
         \/ sendQueue'[d] = sendQueue[d]
         \/ link[d] = "open" /\ \E ch \in Channels : d \in members[ch],
         \A ch \in Channels : d \in members'[ch] => d \in members[ch]
  PROVE  Good(d)'
<1>1. Good(d)
  BY DEF IInv, AllGood
<1>2. CASE sendQueue'[d] = sendQueue[d]
  BY <1>1, <1>2 DEF Good, Same, Waiting, Registering, Only
<1>3. CASE link[d] = "open" /\ \E ch \in Channels : d \in members[ch]
  BY <1>1, <1>3 DEF Good, Same, Waiting
<1> QED
  BY <1>2, <1>3

-------------------------------------------------------------------------------
(* The commands of the server. *)
LEMMA NickInUseIInv ==
  ASSUME IInv, NEW c \in Clients, NEW n \in Nicks, link[c] = "open",
         NickInUse(c, n),
         UNCHANGED <<link, realNick, welcomed, tracker, failed>>,
         asking' \in [Clients -> Nicks \cup {NoNick}],
         \A d \in Clients \ {c} : asking'[d] = asking[d],
         (asking[c] = n /\ asking'[c] = NoNick) \/ welcomed[c]
  PROVE  IInv'
<1>0. ConnTypes /\ ServerTypes /\ TrackerTypes /\ Good(c)
  BY TypeParts DEF IInv, AllGood
<1> DEFINE m == [type |-> "inuse", who |-> n]
<1>1. ConnTypes'
  <2>1. m \in Message
    BY MessageTypes
  <2>2. Append(wire[c], m) \in Seq(Message)
    BY <1>0, <2>1 DEF ConnTypes
  <2> QED
    BY <1>0, <2>2 DEF ConnTypes, NickInUse
<1>2. ServerTypes' /\ TrackerTypes' /\ ServerAgrees'
  BY <1>0 DEF NickInUse, server, tracker, ServerTypes, TrackerTypes, IInv, ServerAgrees
<1>3. Good(c)'
  <2>1. CASE welcomed[c]
    BY <1>0, <2>1 DEF NickInUse, server, Good, Waiting
  <2>2. CASE ~welcomed[c]
    <3>1. Registering(c) /\ asking[c] = n /\ asking'[c] = NoNick
      BY <1>0, <2>2 DEF Good, Waiting
    <3>2. wire[c] = <<>> /\ sendQueue[c] = <<>> /\ nick[c] = NoNick
      BY <3>1, NickFacts DEF Registering
    <3>3. wire'[c] = <<m>>
      BY <1>0, <3>2 DEF NickInUse, ConnTypes
    <3>4. Registering(c)'
      BY <3>1, <3>2, <3>3 DEF Registering, Only, NickInUse, server
    <3> QED
      BY <1>0, <2>2, <3>4 DEF NickInUse, server, Good, Waiting
  <2> QED
    BY <2>1, <2>2
<1>4. ASSUME NEW d \in Clients \ {c} PROVE Good(d)'
  <2>1. Same(d)
    BY <1>0, <1>4 DEF NickInUse, server, Same, ConnTypes, ServerTypes
  <2>2. sendQueue'[d] = sendQueue[d] /\ members' = members
    BY <1>0, <1>4 DEF NickInUse, server, ConnTypes
  <2> QED
    BY <2>1, <2>2, SameGood
<1> QED
  BY <1>1, <1>2, <1>3, <1>4, Together

LEMMA AlreadyMineIInv ==
  ASSUME IInv, NEW c \in Clients, NEW n \in Nicks, link[c] = "open",
         AlreadyMine(c, n),
         UNCHANGED <<link, realNick, welcomed, tracker, failed>>,
         asking' \in [Clients -> Nicks \cup {NoNick}],
         \A d \in Clients \ {c} : asking'[d] = asking[d],
         (asking[c] = n /\ asking'[c] = NoNick) \/ welcomed[c]
  PROVE  IInv'
<1>0. ConnTypes /\ ServerTypes /\ TrackerTypes /\ Good(c)
  BY TypeParts DEF IInv, AllGood
<1>1. welcomed[c]
  <2> SUFFICES ASSUME ~welcomed[c] PROVE FALSE
    OBVIOUS
  <2>1. Registering(c) /\ asking[c] = n
    BY <1>0 DEF Good, Waiting
  <2>2. nick[c] = NoNick
    BY <2>1, NickFacts DEF Registering
  <2>3. nick[c] = n
    BY NickFacts, TrackingAssumption DEF AlreadyMine, IInv, ServerAgrees
  <2> QED
    BY <2>2, <2>3, NickFacts
<1>2. ConnTypes' /\ ServerTypes' /\ TrackerTypes' /\ ServerAgrees'
  BY <1>0 DEF AlreadyMine, server, tracker, ConnTypes, ServerTypes, TrackerTypes,
              IInv, ServerAgrees
<1>3. Good(c)'
  BY <1>0, <1>1 DEF AlreadyMine, server, Good, Waiting
<1>4. ASSUME NEW d \in Clients \ {c} PROVE Good(d)'
  <2>1. Same(d)
    BY <1>0, <1>4 DEF AlreadyMine, server, Same, ConnTypes, ServerTypes
  <2>2. sendQueue'[d] = sendQueue[d] /\ members' = members
    BY <1>0, <1>4 DEF AlreadyMine, server, ConnTypes
  <2> QED
    BY <2>1, <2>2, SameGood
<1> QED
  BY <1>2, <1>3, <1>4, Together

LEMMA RegisterIInv ==
  ASSUME IInv, NEW c \in Clients, NEW n \in Nicks, link[c] = "open",
         Register(c, n),
         UNCHANGED <<link, realNick, welcomed, tracker, failed>>,
         asking' \in [Clients -> Nicks \cup {NoNick}],
         \A d \in Clients \ {c} : asking'[d] = asking[d],
         (asking[c] = n /\ asking'[c] = NoNick) \/ welcomed[c]
  PROVE  IInv'
<1>0. ConnTypes /\ ServerTypes /\ TrackerTypes /\ Good(c)
  BY TypeParts DEF IInv, AllGood
<1> DEFINE m == [type |-> "welcome", who |-> n]
<1>1. ~welcomed[c]
  BY <1>0 DEF Register, Good
<1>2. ConnTypes'
  <2>1. m \in Message
    BY MessageTypes
  <2>2. Append(sendQueue[c], m) \in Seq(Message)
    BY <1>0, <2>1 DEF ConnTypes
  <2> QED
    BY <1>0, <2>2 DEF ConnTypes, Register
<1>3. ServerTypes' /\ TrackerTypes'
  BY <1>0 DEF Register, tracker, ServerTypes, TrackerTypes
<1>4. ServerAgrees'
  BY <1>0, NickFacts, TrackingAssumption
     DEF Register, ServerTypes, IInv, ServerAgrees
<1>5. Good(c)'
  <2>1. Registering(c) /\ asking[c] = n /\ asking'[c] = NoNick
    BY <1>0, <1>1 DEF Good, Waiting
  <2>2. wire[c] = <<>> /\ sendQueue[c] = <<>>
    BY <2>1, NickFacts DEF Registering
  <2>3. sendQueue'[c] = <<m>> /\ nick'[c] = n
    BY <1>0, <2>2 DEF Register, ConnTypes, ServerTypes
  <2>4. Registering(c)'
    BY <2>1, <2>2, <2>3, NickFacts DEF Registering, Only, Register
  <2> QED
    BY <1>0, <1>1, <2>4 DEF Register, Good, Waiting
<1>6. ASSUME NEW d \in Clients \ {c} PROVE Good(d)'
  <2>1. Same(d)
    BY <1>0, <1>6 DEF Register, Same, ConnTypes, ServerTypes
  <2>2. sendQueue'[d] = sendQueue[d] /\ members' = members
    BY <1>0, <1>6 DEF Register, ConnTypes
  <2> QED
    BY <2>1, <2>2, SameGood
<1> QED
  BY <1>2, <1>3, <1>4, <1>5, <1>6, Together

LEMMA ChangeNickIInv ==
  ASSUME IInv, NEW c \in Clients, NEW n \in Nicks, link[c] = "open",
         ChangeNick(c, n),
         UNCHANGED <<link, realNick, welcomed, tracker, failed>>,
         asking' \in [Clients -> Nicks \cup {NoNick}],
         \A d \in Clients \ {c} : asking'[d] = asking[d],
         (asking[c] = n /\ asking'[c] = NoNick) \/ welcomed[c]
  PROVE  IInv'
<1>0. ConnTypes /\ ServerTypes /\ TrackerTypes /\ Good(c)
  BY TypeParts DEF IInv, AllGood
<1> DEFINE m == [type |-> "nick", who |-> nick[c], to |-> n]
<1>1. welcomed[c]
  <2> SUFFICES ASSUME ~welcomed[c] PROVE FALSE
    OBVIOUS
  <2>1. Registering(c) /\ asking[c] = n
    BY <1>0 DEF Good, Waiting
  <2> QED
    BY <2>1, NickFacts DEF Registering, ChangeNick
<1>2. nick[c] \in Nicks
  BY <1>0 DEF ChangeNick, ServerTypes
<1>3. m \in Message
  BY <1>2, MessageTypes
<1>4. ConnTypes'
  <2>1. Append(wire[c], m) \in Seq(Message)
    BY <1>0, <1>3 DEF ConnTypes
  <2>2. sendQueue' \in [Clients -> Seq(Message)]
    BY <1>3, ToldTypes DEF ChangeNick
  <2> QED
    BY <1>0, <2>1, <2>2 DEF ConnTypes, ChangeNick
<1>5. ServerTypes' /\ TrackerTypes'
  <2>1. hasty' \in BOOLEAN
    BY DEF ChangeNick
  <2> QED
    BY <1>0, <2>1 DEF ChangeNick, tracker, ServerTypes, TrackerTypes
<1>6. ServerAgrees'
  BY <1>0, <1>2, NickFacts, TrackingAssumption
     DEF ChangeNick, ServerTypes, IInv, ServerAgrees
<1>7. Good(c)'
  BY <1>0, <1>1, <1>2, NickFacts DEF ChangeNick, Good, Waiting, ServerTypes
<1>8. ASSUME NEW d \in Clients \ {c} PROVE Good(d)'
  <2>1. Same(d)
    BY <1>0, <1>8 DEF ChangeNick, Same, ConnTypes, ServerTypes
  <2>2. \/ sendQueue'[d] = sendQueue[d]
        \/ link[d] = "open" /\ \E ch \in Channels : d \in members[ch]
    BY <1>3, ToldTypes DEF ChangeNick
  <2> QED
    BY <2>1, <2>2, SameGood DEF ChangeNick
<1> QED
  BY <1>4, <1>5, <1>6, <1>7, <1>8, Together

LEMMA NickCommandIInv ==
  ASSUME IInv, NEW c \in Clients, NEW n \in Nicks, NickCommand(c, n),
         asking' \in [Clients -> Nicks \cup {NoNick}],
         \A d \in Clients \ {c} : asking'[d] = asking[d],
         (asking[c] = n /\ asking'[c] = NoNick) \/ welcomed[c]
  PROVE  IInv'
BY NickInUseIInv, AlreadyMineIInv, RegisterIInv, ChangeNickIInv DEF NickCommand

LEMMA NickIInv ==
  ASSUME IInv, NEW c \in Clients, HandleNick(c) \/ \E n \in Nicks : Rename(c, n)
  PROVE  IInv'
<1>0. ConnTypes
  BY TypeParts DEF IInv
<1>1. CASE HandleNick(c)
  <2>1. asking[c] \in Nicks
    BY <1>0, <1>1 DEF HandleNick, ConnTypes
  <2>2. /\ asking' \in [Clients -> Nicks \cup {NoNick}]
        /\ asking'[c] = NoNick
        /\ \A d \in Clients \ {c} : asking'[d] = asking[d]
    BY <1>0, <1>1 DEF HandleNick, ConnTypes
  <2> QED
    BY <1>1, <2>1, <2>2, NickCommandIInv DEF HandleNick
<1>2. ASSUME NEW n \in Nicks, Rename(c, n) PROVE IInv'
  BY <1>0, <1>2, NickCommandIInv DEF Rename, ConnTypes
<1> QED
  BY <1>1, <1>2

LEMMA JoinIInv ==
  ASSUME IInv, NEW c \in Clients, NEW ch \in Channels, HandleJoin(c, ch)
  PROVE  IInv'
<1>0. ConnTypes /\ ServerTypes /\ TrackerTypes /\ Good(c) /\ link[c] = "open"
  BY TypeParts DEF IInv, AllGood, HandleJoin
<1>1. nick[c] \in Nicks
  BY <1>0 DEF HandleJoin, Good, ServerTypes
<1>2. ServerTypes' /\ TrackerTypes'
  BY <1>0 DEF HandleJoin, ServerTypes, TrackerTypes, bot, tracker
<1>3. members' = [members EXCEPT ![ch] = @ \cup {c}]
  BY DEF HandleJoin
<1>4. ServerAgrees'
  BY <1>0, <1>1, <1>3, NickFacts DEF HandleJoin, ServerAgrees, IInv, ServerTypes
<1>5. NicksIn(ch) \in SUBSET Nicks
  <2>1. \A d \in members'[ch] : d \in Clients /\ nick[d] # NoNick
    BY <1>0, <1>1, <1>3, NickFacts DEF ServerTypes, IInv, ServerAgrees
  <2> QED
    BY <1>0, <2>1 DEF NicksIn, ServerTypes
<1> DEFINE join == <<[type |-> "join", who |-> nick[c], ch |-> ch]>>
           names == <<[type |-> "names", ch |-> ch, who |-> NicksIn(ch)]>>
<1>6. join \in Seq(Message) /\ names \in Seq(Message) /\ <<>> \in Seq(Message)
  <2>1. [type |-> "join", who |-> nick[c], ch |-> ch] \in Message
    BY <1>1, MessageTypes
  <2>2. [type |-> "names", ch |-> ch, who |-> NicksIn(ch)] \in Message
    BY <1>5, MessageTypes
  <2> QED
    BY <2>1, <2>2
<1>7. sendQueue' = [d \in Clients |->
                      IF d \in members'[ch] /\ link[d] = "open"
                      THEN sendQueue[d] \o join \o (IF d = c THEN names ELSE <<>>)
                      ELSE sendQueue[d]]
  BY DEF HandleJoin
<1> HIDE DEF join, names
<1>8. ConnTypes'
  <2>1. \A d \in Clients : sendQueue'[d] \in Seq(Message)
    BY <1>0, <1>6, <1>7 DEF ConnTypes
  <2>2. sendQueue' \in [Clients -> Seq(Message)]
    BY <1>7, <2>1
  <2> QED
    BY <1>0, <2>2 DEF HandleJoin, ConnTypes, bot
<1>9. Good(c)'
  BY <1>0 DEF HandleJoin, Good, Waiting, bot
<1>10. ASSUME NEW d \in Clients \ {c} PROVE Good(d)'
  <2>1. Same(d)
    BY DEF HandleJoin, Same, bot
  <2>2. \A h \in Channels : d \in members'[h] <=> d \in members[h]
    BY <1>0, <1>3 DEF ServerTypes
  <2>3. \/ sendQueue'[d] = sendQueue[d]
        \/ link[d] = "open" /\ \E h \in Channels : d \in members[h]
    BY <1>7, <2>2
  <2> QED
    BY <2>1, <2>2, <2>3, SameGood
<1> QED
  BY <1>2, <1>4, <1>8, <1>9, <1>10, Together

LEMMA PartIInv ==
  ASSUME IInv, NEW c \in Clients, NEW ch \in Channels, HandlePart(c, ch)
  PROVE  IInv'
<1>0. ConnTypes /\ ServerTypes /\ TrackerTypes /\ Good(c) /\ link[c] = "open"
  BY TypeParts DEF IInv, AllGood, HandlePart
<1>1. nick[c] \in Nicks
  BY <1>0 DEF HandlePart, Good, ServerTypes
<1>2. members' = [members EXCEPT ![ch] = @ \ {c}]
  BY DEF HandlePart
<1>3. ServerTypes' /\ TrackerTypes'
  BY <1>0 DEF HandlePart, ServerTypes, TrackerTypes, bot, tracker
<1>4. ServerAgrees'
  <2>1. \A d \in Clients, h \in Channels :
          d \in members'[h] => d \in members[h] /\ (d # c \/ h # ch)
    BY <1>0, <1>2 DEF ServerTypes
  <2>2. \A d \in Clients, h \in Channels :
          h \in joined[d] /\ (d # c \/ h # ch) => h \in joined'[d]
    BY <1>0 DEF HandlePart, ServerTypes
  <2> QED
    BY <2>1, <2>2 DEF HandlePart, ServerAgrees, IInv
<1>5. ConnTypes'
  <2>1. [type |-> "part", who |-> nick[c], ch |-> ch] \in Message
    BY <1>1, MessageTypes
  <2>2. sendQueue' \in [Clients -> Seq(Message)]
    BY <1>0, <2>1 DEF HandlePart, ConnTypes
  <2> QED
    BY <1>0, <2>2 DEF HandlePart, ConnTypes, bot
<1>6. Good(c)'
  <2>1. CASE c \in members[ch]
    BY <1>0, <2>1 DEF HandlePart, Good, Waiting, bot
  <2>2. CASE c \notin members[ch]
    <3>1. link'[c] = "raised" /\ sendQueue'[c] = <<>>
      BY <1>0, <2>2 DEF HandlePart, ConnTypes
    <3> QED
      BY <3>1 DEF Good, Waiting
  <2> QED
    BY <2>1, <2>2
<1>7. ASSUME NEW d \in Clients \ {c} PROVE Good(d)'
  <2>1. Same(d)
    BY <1>0 DEF HandlePart, Same, bot, ConnTypes
  <2>2. \A h \in Channels : d \in members'[h] => d \in members[h]
    BY <1>0, <1>2 DEF ServerTypes
  <2>3. \/ sendQueue'[d] = sendQueue[d]
        \/ link[d] = "open" /\ \E h \in Channels : d \in members[h]
    BY DEF HandlePart
  <2> QED
    BY <2>1, <2>2, <2>3, SameGood
<1> QED
  BY <1>3, <1>4, <1>5, <1>6, <1>7, Together

(* A client that leaves the channels it is in. *)
LEMMA QuitsFacts ==
  ASSUME IInv, NEW c \in Clients, Quits(c)
  PROVE  /\ sendQueue' \in [Clients -> Seq(Message)]
         /\ members' \in [Channels -> SUBSET Clients]
         /\ \A d \in Clients, h \in Channels :
              d \in members'[h] <=> d \in members[h] /\ d # c
         /\ \A d \in Clients : \/ sendQueue'[d] = sendQueue[d]
                               \/ /\ link[d] = "open"
                                  /\ \E ch \in Channels : d \in members[ch]
         /\ sendQueue'[c] = sendQueue[c]
<1>0. ServerTypes
  BY TypeParts DEF IInv
<1> DEFINE m == [type |-> "quit", who |-> nick[c]]
<1>1. nick[c] # NoNick => m \in Message
  BY <1>0, MessageTypes DEF ServerTypes
<1>2. /\ sendQueue' = Told(c, m)
      /\ members' = [ch \in Channels |-> members[ch] \ {c}]
  BY DEF Quits
<1>3. Told(c, m)[c] = sendQueue[c]
  BY DEF Told
<1> HIDE DEF m
<1>4. /\ sendQueue' \in [Clients -> Seq(Message)]
      /\ \A d \in Clients : \/ sendQueue'[d] = sendQueue[d]
                            \/ /\ link[d] = "open"
                               /\ \E ch \in Channels : d \in members[ch]
  BY <1>1, <1>2, ToldTypes
<1>5. /\ members' \in [Channels -> SUBSET Clients]
      /\ \A d \in Clients, h \in Channels :
           d \in members'[h] <=> d \in members[h] /\ d # c
  BY <1>0, <1>2 DEF ServerTypes
<1> QED
  BY <1>2, <1>3, <1>4, <1>5

LEMMA QuitIInv ==
  ASSUME IInv, NEW c \in Clients, HandleQuit(c)
  PROVE  IInv'
<1>0. ConnTypes /\ ServerTypes /\ TrackerTypes /\ Good(c)
  BY TypeParts DEF IInv, AllGood
<1>1. Quits(c)
  BY DEF HandleQuit
<1>2. ConnTypes'
  BY <1>0, <1>1, QuitsFacts DEF HandleQuit, ConnTypes, bot
<1>3. ServerTypes' /\ TrackerTypes'
  BY <1>0, <1>1, QuitsFacts DEF HandleQuit, ServerTypes, TrackerTypes, bot, tracker
<1>4. ServerAgrees'
  BY <1>1, QuitsFacts DEF HandleQuit, ServerAgrees, IInv
<1>5. Good(c)'
  BY <1>0, <1>1, QuitsFacts DEF HandleQuit, Good, Waiting, bot, ConnTypes
<1>6. ASSUME NEW d \in Clients \ {c} PROVE Good(d)'
  <2>1. Same(d)
    BY <1>0 DEF HandleQuit, Same, bot, ConnTypes
  <2> QED
    BY <1>1, <2>1, QuitsFacts, SameGood
<1> QED
  BY <1>2, <1>3, <1>4, <1>5, <1>6, Together

LEMMA FinishIInv ==
  ASSUME IInv, NEW c \in Clients, Finish(c)
  PROVE  IInv'
<1>0. ConnTypes /\ ServerTypes /\ TrackerTypes /\ Good(c)
  BY TypeParts DEF IInv, AllGood
<1>1. Quits(c)
  BY DEF Finish
<1>2. ConnTypes'
  BY <1>0, <1>1, QuitsFacts DEF Finish, ConnTypes, bot
<1>3. ServerTypes' /\ TrackerTypes'
  BY <1>0, <1>1, QuitsFacts DEF Finish, ServerTypes, TrackerTypes, bot, tracker
<1>4. ServerAgrees'
  BY <1>0, <1>1, QuitsFacts, NickFacts, TrackingAssumption
     DEF Finish, ServerTypes, ServerAgrees, IInv
<1>5. Good(c)'
  BY <1>0, <1>1, QuitsFacts
     DEF Finish, Good, Waiting, bot, ConnTypes, ServerTypes
<1>6. ASSUME NEW d \in Clients \ {c} PROVE Good(d)'
  <2>1. Same(d)
    BY <1>0 DEF Finish, Same, bot, ConnTypes, ServerTypes
  <2> QED
    BY <1>1, <2>1, QuitsFacts, SameGood
<1> QED
  BY <1>2, <1>3, <1>4, <1>5, <1>6, Together

LEMMA FlushIInv ==
  ASSUME IInv, NEW c \in Clients, Flush(c)
  PROVE  IInv'
<1>0. ConnTypes /\ ServerTypes /\ TrackerTypes /\ Good(c) /\ link[c] = "open"
  BY TypeParts DEF IInv, AllGood, Flush
<1>1. ConnTypes'
  <2>1. wire[c] \o sendQueue[c] \in Seq(Message) /\ <<>> \in Seq(Message)
    BY <1>0 DEF ConnTypes
  <2> QED
    BY <1>0, <2>1 DEF Flush, ConnTypes, bot
<1>2. ServerTypes' /\ TrackerTypes' /\ ServerAgrees'
  BY <1>0 DEF Flush, ServerTypes, TrackerTypes, ServerAgrees, IInv, server, bot, tracker
<1>3. Good(c)'
  <2>1. CASE welcomed[c]
    BY <1>0, <2>1 DEF Flush, Good, Waiting, server, bot
  <2>2. CASE ~welcomed[c]
    <3>1. Registering(c)
      BY <1>0, <2>2 DEF Good, Waiting
    <3>2. /\ asking[c] = NoNick /\ nick[c] # NoNick
          /\ wire[c] = <<>> /\ Only(sendQueue[c], "welcome")
      BY <3>1, NickFacts DEF Registering, Flush
    <3>3. wire[c] \o sendQueue[c] = sendQueue[c]
      BY <1>0, <3>2, ConcatEmptySeq DEF ConnTypes
    <3>4. wire'[c] = sendQueue[c] /\ sendQueue'[c] = <<>>
      BY <1>0, <3>3 DEF Flush, ConnTypes
    <3>5. Registering(c)'
      BY <3>2, <3>4 DEF Registering, Only, Flush, server, bot
    <3> QED
      BY <1>0, <2>2, <3>5 DEF Flush, Good, Waiting, server, bot
  <2> QED
    BY <2>1, <2>2
<1>4. ASSUME NEW d \in Clients \ {c} PROVE Good(d)'
  <2>1. Same(d) /\ sendQueue'[d] = sendQueue[d] /\ members' = members
    BY <1>0 DEF Flush, Same, server, bot, ConnTypes
  <2> QED
    BY <2>1, SameGood
<1> QED
  BY <1>1, <1>2, <1>3, <1>4, Together

-------------------------------------------------------------------------------
(* The bot. *)
LEMMA ConnectIInv ==
  ASSUME IInv, NEW c \in Clients, Connect(c)
  PROVE  IInv'
<1>0. ConnTypes /\ ServerTypes /\ TrackerTypes /\ Good(c)
  BY TypeParts DEF IInv, AllGood
<1>1. ConnTypes'
  BY <1>0, NickFacts DEF Connect, ConnTypes
<1>2. ServerTypes' /\ TrackerTypes' /\ ServerAgrees'
  BY <1>0 DEF Connect, ServerTypes, TrackerTypes, ServerAgrees, IInv, server, tracker
<1>3. Good(c)'
  <2>1. /\ wire'[c] = <<>> /\ sendQueue'[c] = <<>> /\ nick'[c] = NoNick
        /\ asking'[c] = 0 /\ realNick'[c] = 0 /\ link'[c] = "open"
        /\ welcomed'[c] = welcomed[c] /\ ~welcomed[c]
    BY <1>0 DEF Connect, Good, server, ConnTypes
  <2>2. \A ch \in Channels : c \notin members'[ch]
    BY <1>0, <2>1 DEF Connect, server, IInv, ServerAgrees
  <2> QED
    BY <2>1, <2>2 DEF Good, Waiting, Registering
<1>4. ASSUME NEW d \in Clients \ {c} PROVE Good(d)'
  <2>1. Same(d) /\ sendQueue'[d] = sendQueue[d] /\ members' = members
    BY <1>0 DEF Connect, Same, server, ConnTypes
  <2> QED
    BY <2>1, SameGood
<1> QED
  BY <1>1, <1>2, <1>3, <1>4, Together

(* What every end of a connection has in common on the client's side.        *)
LEMMA OfflineIInv ==
  ASSUME IInv, NEW c \in Clients, Offline(c), UNCHANGED server,
         NEW l \in {"off", "quit", "left"}, link' = [link EXCEPT ![c] = l],
         l = "off" => nick[c] = NoNick,
         sendQueue' = [sendQueue EXCEPT ![c] = <<>>],
         failed' \in SUBSET Clients, hasty' = hasty
  PROVE  IInv'
<1>0. ConnTypes /\ ServerTypes /\ TrackerTypes
  BY TypeParts DEF IInv
<1>1. ConnTypes'
  BY <1>0, NickFacts DEF Offline, ConnTypes
<1>2. ServerTypes' /\ TrackerTypes' /\ ServerAgrees'
  BY <1>0 DEF Offline, ServerTypes, TrackerTypes, ServerAgrees, IInv, server
<1>3. Good(c)'
  BY <1>0 DEF Offline, Good, Waiting, ConnTypes, server
<1>4. ASSUME NEW d \in Clients \ {c} PROVE Good(d)'
  <2>1. Same(d) /\ sendQueue'[d] = sendQueue[d] /\ members' = members
    BY <1>0 DEF Offline, Same, server, ConnTypes
  <2> QED
    BY <2>1, SameGood
<1> QED
  BY <1>1, <1>2, <1>3, <1>4, Together

LEMMA EndIInv ==
  ASSUME IInv, NEW c \in Clients, Leave(c) \/ SeeEnd(c) \/ DeliverFails(c)
  PROVE  IInv'
<1>0. ConnTypes /\ TrackerTypes /\ Good(c)
  BY TypeParts DEF IInv, AllGood
<1>1. CASE Leave(c)
  BY <1>0, <1>1, OfflineIInv DEF Leave, TrackerTypes
<1>2. CASE SeeEnd(c)
  <2>1. sendQueue' = [sendQueue EXCEPT ![c] = <<>>]
    BY <1>0, <1>2 DEF SeeEnd, Good, ConnTypes
  <2>2. nick[c] = NoNick
    BY <1>0, <1>2 DEF SeeEnd, Good
  <2> QED
    BY <1>0, <1>2, <2>1, <2>2, OfflineIInv DEF SeeEnd, TrackerTypes
<1>3. CASE DeliverFails(c)
  <2> DEFINE l == IF link[c] = "cut" THEN "off" ELSE "left"
  <2>1. link' = [link EXCEPT ![c] = l]
    BY <1>3 DEF DeliverFails
  <2>2. l = "off" => nick[c] = NoNick
    BY <1>0 DEF Good
  <2>3. failed' \in SUBSET Clients
    BY <1>0, <1>3 DEF DeliverFails, TrackerTypes
  <2> QED
    BY <1>3, <2>1, <2>2, <2>3, OfflineIInv DEF DeliverFails
<1> QED
  BY <1>1, <1>2, <1>3

LEMMA UsersTypes ==
  ASSUME NEW f \in [Clients -> [Channels -> SUBSET Nicks]],
         NEW c \in Clients, NEW ch \in Channels, NEW us \in SUBSET Nicks
  PROVE  [f EXCEPT ![c][ch] = us] \in [Clients -> [Channels -> SUBSET Nicks]]
OBVIOUS

(* What a handler does to the bot's own nickname and its tracker. *)
LEMMA HandleTypes ==
  ASSUME IInv, NEW c \in Clients, NEW m \in Message, Handle(c, m)
  PROVE  /\ asking' \in [Clients -> Nicks \cup {NoNick}]
         /\ realNick' \in [Clients -> Nicks]
         /\ welcomed' \in [Clients -> BOOLEAN]
         /\ channels' \in [Clients -> SUBSET Channels]
         /\ users' \in [Clients -> [Channels -> SUBSET Nicks]]
         /\ \A d \in Clients \ {c} : /\ asking'[d] = asking[d]
                                     /\ realNick'[d] = realNick[d]
                                     /\ welcomed'[d] = welcomed[d]
         /\ welcomed[c] => welcomed'[c]
<1>0. ConnTypes /\ TrackerTypes
  BY TypeParts DEF IInv
<1> USE <1>0 DEF ConnTypes, TrackerTypes, tracker
<1>1. CASE OnNicknameInUse(c, m)
  <2>1. realNick[c] < Longest => realNick[c] + 1 \in Nicks
    BY TrackingAssumption DEF Nicks
  <2> QED
    BY <1>1, <2>1 DEF OnNicknameInUse
<1>2. CASE OnWelcome(c, m)
  BY <1>2, MessageFields DEF OnWelcome
<1>3. CASE OnJoin(c, m)
  <2>1. m.who \in Nicks /\ m.ch \in Channels
    BY <1>3, MessageFields DEF OnJoin
  <2> QED
    BY <1>3, <2>1 DEF OnJoin
<1>4. CASE OnNamreply(c, m)
  <2>1. m.who \in SUBSET Nicks /\ m.ch \in Channels
    BY <1>4, MessageFields DEF OnNamreply
  <2> QED
    BY <1>4, <2>1 DEF OnNamreply
<1>5. CASE OnPart(c, m)
  <2>1. m.who \in Nicks /\ m.ch \in Channels
    BY <1>5, MessageFields DEF OnPart
  <2>2. \/ /\ channels' = [channels EXCEPT ![c] = @ \ {m.ch}]
           /\ users' = [users EXCEPT ![c][m.ch] = {}]
        \/ /\ channels' = channels
           /\ users' = [users EXCEPT ![c][m.ch] = @ \ {m.who}]
    BY <1>5, Zenon DEF OnPart
  <2>3. channels' \in [Clients -> SUBSET Channels]
    <3>1. channels[c] \ {m.ch} \in SUBSET Channels
      OBVIOUS
    <3> HIDE DEF tracker, ConnTypes
    <3> QED
      BY <2>2, <3>1
  <2>4. users[c][m.ch] \ {m.who} \in SUBSET Nicks /\ {} \in SUBSET Nicks
    BY <2>1
  <2>5. users \in [Clients -> [Channels -> SUBSET Nicks]]
    OBVIOUS
  <2>6. users' \in [Clients -> [Channels -> SUBSET Nicks]]
    <3> DEFINE others == users[c][m.ch] \ {m.who}
    <3>1. [users EXCEPT ![c][m.ch] = {}] \in [Clients -> [Channels -> SUBSET Nicks]]
      BY <2>1, <2>4, <2>5, UsersTypes
    <3>2. \A us \in SUBSET Nicks :
            [users EXCEPT ![c][m.ch] = us] \in [Clients -> [Channels -> SUBSET Nicks]]
      BY <2>1, <2>5, UsersTypes
    <3>3. [users EXCEPT ![c][m.ch] = others] \in [Clients -> [Channels -> SUBSET Nicks]]
      <4>1. others \in SUBSET Nicks
        BY <2>4
      <4> HIDE DEF others
      <4> QED
        BY <3>2, <4>1
    <3> QED
      BY <2>2, <3>1, <3>3
  <2> QED
    BY <1>5, <2>3, <2>6 DEF OnPart
<1>6. CASE OnNick(c, m)
  <2>1. m.who \in Nicks /\ m.to \in Nicks
    BY <1>6, MessageFields DEF OnNick
  <2> QED
    BY <1>6, <2>1 DEF OnNick, Renamed
<1>7. CASE OnQuit(c, m)
  BY <1>7 DEF OnQuit
<1> QED
  BY <1>1, <1>2, <1>3, <1>4, <1>5, <1>6, <1>7 DEF Handle

LEMMA DeliverIInv ==
  ASSUME IInv, NEW c \in Clients, Deliver(c)
  PROVE  IInv'
<1>0. ConnTypes /\ ServerTypes /\ TrackerTypes /\ Good(c)
  BY TypeParts DEF IInv, AllGood
<1> DEFINE m == Head(wire[c])
<1>1. wire[c] \in Seq(Message) /\ m \in Message /\ Tail(wire[c]) \in Seq(Message)
  BY <1>0 DEF ConnTypes, Deliver
<1>2. Handle(c, m)
  BY DEF Deliver
<1> HIDE DEF m
<1>3. ConnTypes'
  BY <1>0, <1>1, <1>2, HandleTypes DEF ConnTypes, Deliver
<1>4. TrackerTypes'
  BY <1>0, <1>1, <1>2, HandleTypes DEF TrackerTypes, Deliver
<1>5. ServerTypes' /\ ServerAgrees'
  BY <1>0 DEF Deliver, server, ServerTypes, ServerAgrees, IInv
<1>6. Good(c)'
  <2>1. link[c] \notin {"off", "quit", "left"} /\ link' = link
        /\ sendQueue' = sendQueue /\ nick' = nick /\ members' = members
    BY <1>0 DEF Good, Deliver, server
  <2>2. CASE link[c] # "open" \/ welcomed[c]
    BY <1>0, <1>1, <1>2, <2>1, <2>2, HandleTypes DEF Good, Waiting
  <2>3. CASE link[c] = "open" /\ ~welcomed[c]
    <3>1. Registering(c) /\ realNick[c] = 0
      BY <1>0, <2>3 DEF Good, Waiting
    <3>2. PICK n \in Nicks : \E t \in {"inuse", "welcome"} :
            /\ wire[c] = <<[type |-> t, who |-> n]>>
            /\ sendQueue[c] = <<>>
            /\ t = "inuse" => nick[c] = NoNick
            /\ t = "welcome" => nick[c] # NoNick
      BY <3>1 DEF Registering, Only, Deliver
    <3>3. wire'[c] = <<>>
      BY <1>0, <3>2 DEF Deliver, ConnTypes
    <3>4. CASE m.type = "inuse"
      <4>1. asking'[c] = 1 /\ realNick' = realNick /\ welcomed' = welcomed
        BY <1>0, <1>2, <3>1, <3>4, NickFacts
           DEF Handle, OnNicknameInUse, OnWelcome, OnJoin, OnNamreply, OnPart, OnNick,
               OnQuit, ConnTypes
      <4>2. nick[c] = NoNick
        BY <3>2, <3>4 DEF m
      <4>3. Registering(c)'
        BY <2>1, <3>2, <3>3, <4>1, <4>2 DEF Registering
      <4> QED
        BY <1>0, <2>1, <2>3, <3>1, <4>1, <4>2, <4>3 DEF Good, Waiting
    <3>5. CASE m.type = "welcome"
      <4>1. welcomed'[c]
        BY <1>0, <1>2, <3>5
           DEF Handle, OnNicknameInUse, OnWelcome, OnJoin, OnNamreply, OnPart, OnNick,
               OnQuit, ConnTypes
      <4>2. nick[c] # NoNick
        BY <3>2, <3>5 DEF m
      <4> QED
        BY <2>1, <2>3, <4>1, <4>2 DEF Good, Waiting
    <3> QED
      BY <3>2, <3>4, <3>5 DEF m
  <2> QED
    BY <2>2, <2>3
<1>7. ASSUME NEW d \in Clients \ {c} PROVE Good(d)'
  <2>1. Same(d) /\ sendQueue'[d] = sendQueue[d] /\ members' = members
    BY <1>0, <1>1, <1>2, HandleTypes DEF Deliver, Same, server, ConnTypes
  <2> QED
    BY <2>1, SameGood
<1> QED
  BY <1>3, <1>4, <1>5, <1>6, <1>7, Together

LEMMA NextIInv == IInv /\ [Next]_vars => IInv'
<1> SUFFICES ASSUME IInv, [Next]_vars PROVE IInv'
  OBVIOUS
<1>1. ASSUME NEW c \in Clients, Step(c) PROVE IInv'
  <2>1. CASE \E ch \in Channels : HandleJoin(c, ch) \/ HandlePart(c, ch)
    BY <2>1, JoinIInv, PartIInv
  <2>2. CASE HandleNick(c) \/ \E n \in Nicks : Rename(c, n)
    BY <2>2, NickIInv
  <2>3. CASE HandleQuit(c) \/ Finish(c) \/ Flush(c)
    BY <2>3, QuitIInv, FinishIInv, FlushIInv
  <2>4. CASE Connect(c) \/ Leave(c) \/ SeeEnd(c) \/ DeliverFails(c)
    BY <2>4, ConnectIInv, EndIInv
  <2>5. CASE Deliver(c)
    BY <2>5, DeliverIInv
  <2> QED
    BY <1>1, <2>1, <2>2, <2>3, <2>4, <2>5 DEF Step
<1>2. CASE UNCHANGED vars
  <2>1. TypeOK'
    BY <1>2 DEF IInv, TypeOK, vars, server, bot, tracker
  <2>2. ServerAgrees'
    BY <1>2 DEF IInv, ServerAgrees, vars, server
  <2>3. AllGood'
    BY <1>2 DEF IInv, AllGood, Good, Waiting, Registering, Only, vars, server, bot
  <2> QED
    BY <2>1, <2>2, <2>3 DEF IInv
<1> QED
  BY <1>1, <1>2 DEF Next

-------------------------------------------------------------------------------
(* IInv holds of every reachable state. *)
THEOREM Invariance == Spec => []IInv
BY InitIInv, NextIInv, PTL DEF Spec

(* What is sent to a bot, and what the bot makes of it, has its type: no     *)
(* message carries the nickname of a client that has none                    *)
(* (server.py:189-300, 363-434; bot.py:187-263).                             *)
THEOREM TypeCorrect == Spec => []TypeOK
<1>1. IInv => TypeOK
  BY DEF IInv
<1> QED
  BY <1>1, Invariance, PTL

(* The two sides of each fact of the server agree, whatever the clients do   *)
(* and however they leave (server.py:189-300, 363-434).                      *)
THEOREM ServerAgreesAlways == Spec => []ServerAgrees
<1>1. IInv => ServerAgrees
  BY DEF IInv
<1> QED
  BY <1>1, Invariance, PTL

(* A bot before its welcome always has its NICK or the answer under way, and *)
(* asks for no nickname but its own and that with one underscore             *)
(* (xbot.py:83-84, server.py:189-233).                                       *)
THEOREM WaitingBotAsksAlways == Spec => []WaitingBotAsks
<1>1. ASSUME IInv, NEW c \in Clients, Waiting(c)
      PROVE  asking[c] \in {0, 1} \/ wire[c] # <<>> \/ sendQueue[c] # <<>>
  <2>1. Registering(c)
    BY <1>1 DEF IInv, AllGood, Good
  <2>2. \A t : ~Only(<<>>, t)
    BY DEF Only
  <2> QED
    BY <2>1, <2>2 DEF Registering
<1>2. IInv => WaitingBotAsks
  BY <1>1 DEF WaitingBotAsks
<1> QED
  BY <1>2, Invariance, PTL

-------------------------------------------------------------------------------
(* What a bot knows, and what it makes of a message: Known and Handle of one *)
(* bot by themselves.                                                        *)
Views == [real : Nicks, channels : SUBSET Channels,
          users : [Channels -> SUBSET Nicks]]

View(c) == [real |-> realNick[c], channels |-> channels[c], users |-> users[c]]

Knows(v, m) ==
  m.type \in {"join", "part", "names"} =>
    (m.type = "join" /\ m.who = v.real) \/ m.ch \in v.channels

RealAfter(v, m) ==
  CASE m.type = "welcome" -> m.who
    [] m.type = "nick" /\ m.who = v.real -> m.to
    [] OTHER -> v.real

ChannelsAfter(v, m) ==
  CASE m.type = "join" -> v.channels \cup {m.ch}
    [] m.type = "part" /\ m.who = v.real -> v.channels \ {m.ch}
    [] OTHER -> v.channels

UsersAfter(v, m, ch) ==
  CASE m.type = "join" /\ m.ch = ch ->
         IF m.who = v.real THEN {m.who} ELSE v.users[ch] \cup {m.who}
    [] m.type = "names" /\ m.ch = ch -> v.users[ch] \cup m.who
    [] m.type = "part" /\ m.ch = ch ->
         IF m.who = v.real THEN {} ELSE v.users[ch] \ {m.who}
    [] m.type = "nick" -> Renamed(v.users[ch], m)
    [] m.type = "quit" -> v.users[ch] \ {m.who}
    [] OTHER -> v.users[ch]

Reads(v, m, w) ==
  /\ Knows(v, m)
  /\ w.real = RealAfter(v, m)
  /\ w.channels = ChannelsAfter(v, m)
  /\ \A ch \in Channels : w.users[ch] = UsersAfter(v, m, ch)

(* A bot that knows s knows t when it has read the messages q.               *)
Path(s, q, t) ==
  \E p \in [0 .. Len(q) -> Views] :
    /\ p[0] = s
    /\ p[Len(q)] = t
    /\ \A i \in 1 .. Len(q) : Reads(p[i - 1], q[i], p[i])

LEMMA PathNone ==
  ASSUME NEW s \in Views
  PROVE  Path(s, <<>>, s)
<1> DEFINE p == [i \in 0 .. 0 |-> s]
<1>1. Len(<<>>) = 0
  OBVIOUS
<1>2. p \in [0 .. 0 -> Views] /\ p[0] = s
  OBVIOUS
<1> HIDE DEF p
<1> QED
  BY <1>1, <1>2 DEF Path

LEMMA NonePath ==
  ASSUME NEW s, NEW t, Path(s, <<>>, t)
  PROVE  s = t
BY DEF Path

LEMMA PathOne ==
  ASSUME NEW s \in Views, NEW t \in Views, NEW m, Reads(s, m, t)
  PROVE  Path(s, <<m>>, t)
<1> DEFINE p == [i \in 0 .. 1 |-> IF i = 0 THEN s ELSE t]
<1>1. Len(<<m>>) = 1 /\ <<m>>[1] = m
  OBVIOUS
<1>2. p \in [0 .. 1 -> Views] /\ p[0] = s /\ p[1] = t
  OBVIOUS
<1> HIDE DEF p
<1>3. \A i \in 1 .. 1 : Reads(p[i - 1], <<m>>[i], p[i])
  <2> SUFFICES ASSUME NEW i \in 1 .. 1 PROVE Reads(p[i - 1], <<m>>[i], p[i])
    OBVIOUS
  <2>1. i = 1 /\ i - 1 = 0
    OBVIOUS
  <2> QED
    BY <1>1, <1>2, <2>1
<1> QED
  BY <1>1, <1>2, <1>3 DEF Path

LEMMA OnePath ==
  ASSUME NEW s, NEW t, NEW m, Path(s, <<m>>, t)
  PROVE  Reads(s, m, t)
<1>1. Len(<<m>>) = 1 /\ <<m>>[1] = m
  OBVIOUS
<1>2. PICK p \in [0 .. 1 -> Views] :
        /\ p[0] = s
        /\ p[1] = t
        /\ \A i \in 1 .. 1 : Reads(p[i - 1], <<m>>[i], p[i])
  BY <1>1 DEF Path
<1>3. 1 \in 1 .. 1 /\ 1 - 1 = 0
  OBVIOUS
<1>4. Reads(p[1 - 1], <<m>>[1], p[1])
  BY <1>2, <1>3
<1> QED
  BY <1>1, <1>2, <1>3, <1>4

LEMMA ConcatFacts ==
  ASSUME NEW a \in Seq(Message), NEW b \in Seq(Message)
  PROVE  /\ Len(a \o b) = Len(a) + Len(b)
         /\ \A i \in 1 .. Len(a) : (a \o b)[i] = a[i]
         /\ \A i \in 1 .. Len(b) : (a \o b)[Len(a) + i] = b[i]
OBVIOUS

LEMMA ThreeQueues ==
  \A x, y, z \in Seq(Message) :
    (x \o y) \o z = x \o (y \o z) /\ y \o z \in Seq(Message)
OBVIOUS

LEMMA PathJoin ==
  ASSUME NEW a \in Seq(Message), NEW b \in Seq(Message), NEW s, NEW u, NEW t,
         Path(s, a, u), Path(u, b, t)
  PROVE  Path(s, a \o b, t)
<1> DEFINE la == Len(a)
           lb == Len(b)
<1>0. la \in Nat /\ lb \in Nat
  OBVIOUS
<1>1. PICK p \in [0 .. la -> Views] :
        p[0] = s /\ p[la] = u /\ \A i \in 1 .. la : Reads(p[i - 1], a[i], p[i])
  BY DEF Path
<1>2. PICK r \in [0 .. lb -> Views] :
        r[0] = u /\ r[lb] = t /\ \A i \in 1 .. lb : Reads(r[i - 1], b[i], r[i])
  BY DEF Path
<1>3. /\ Len(a \o b) = la + lb
      /\ \A i \in 1 .. la : (a \o b)[i] = a[i]
      /\ \A i \in 1 .. lb : (a \o b)[la + i] = b[i]
  BY ConcatFacts
<1> HIDE DEF la, lb
<1> DEFINE x == [i \in 0 .. la + lb |-> IF i <= la THEN p[i] ELSE r[i - la]]
<1>4. x \in [0 .. la + lb -> Views]
  <2>1. ASSUME NEW i \in 0 .. la + lb
        PROVE  (IF i <= la THEN p[i] ELSE r[i - la]) \in Views
    BY <1>0, <1>1, <1>2
  <2> QED
    BY <2>1
<1>5. /\ \A i \in 0 .. la : x[i] = p[i]
      /\ \A i \in 0 .. lb : x[la + i] = r[i]
  <2>1. \A i \in 0 .. la : x[i] = p[i]
    BY <1>0
  <2>2. ASSUME NEW i \in 0 .. lb PROVE x[la + i] = r[i]
    <3>1. CASE i = 0
      BY <1>0, <1>1, <1>2, <3>1
    <3>2. CASE i # 0
      <4>1. la + i \in 0 .. la + lb /\ ~(la + i <= la) /\ (la + i) - la = i
        BY <1>0, <3>2
      <4> QED
        BY <4>1
    <3> QED
      BY <3>1, <3>2
  <2> QED
    BY <2>1, <2>2
<1> HIDE DEF x
<1>6. x[0] = s /\ x[la + lb] = t
  <2>1. 0 \in 0 .. la /\ lb \in 0 .. lb
    BY <1>0
  <2> QED
    BY <1>1, <1>2, <1>5, <2>1
<1>7. ASSUME NEW i \in 1 .. la + lb
      PROVE  Reads(x[i - 1], (a \o b)[i], x[i])
  <2>1. CASE i <= la
    <3>1. i \in 1 .. la /\ i \in 0 .. la /\ i - 1 \in 0 .. la
      BY <1>0, <2>1
    <3>2. x[i - 1] = p[i - 1] /\ x[i] = p[i] /\ (a \o b)[i] = a[i]
      BY <1>3, <1>5, <3>1
    <3> QED
      BY <1>1, <3>1, <3>2
  <2>2. CASE ~(i <= la)
    <3> DEFINE k == i - la
    <3>1. k \in 1 .. lb /\ k \in 0 .. lb /\ k - 1 \in 0 .. lb
      BY <1>0, <2>2
    <3>2. i = la + k /\ i - 1 = la + (k - 1)
      BY <1>0
    <3> HIDE DEF k
    <3>3. x[i - 1] = r[k - 1] /\ x[i] = r[k] /\ (a \o b)[i] = b[k]
      BY <1>3, <1>5, <3>1, <3>2
    <3> QED
      BY <1>2, <3>1, <3>3
  <2> QED
    BY <2>1, <2>2
<1> QED
  BY <1>3, <1>4, <1>6, <1>7 DEF Path

LEMMA PathSplit ==
  ASSUME NEW a \in Seq(Message), NEW b \in Seq(Message), NEW s, NEW t,
         Path(s, a \o b, t)
  PROVE  \E u \in Views : Path(s, a, u) /\ Path(u, b, t)
<1> DEFINE la == Len(a)
           lb == Len(b)
<1>0. la \in Nat /\ lb \in Nat
  OBVIOUS
<1>1. /\ Len(a \o b) = la + lb
      /\ \A i \in 1 .. la : (a \o b)[i] = a[i]
      /\ \A i \in 1 .. lb : (a \o b)[la + i] = b[i]
  BY ConcatFacts
<1>2. PICK x \in [0 .. la + lb -> Views] :
        /\ x[0] = s /\ x[la + lb] = t
        /\ \A i \in 1 .. la + lb : Reads(x[i - 1], (a \o b)[i], x[i])
  BY <1>1 DEF Path
<1>3. Path(s, a, x[la])
  <2> DEFINE p == [i \in 0 .. la |-> x[i]]
  <2>1. /\ p \in [0 .. la -> Views]
        /\ \A i \in 0 .. la : p[i] = x[i]
    BY <1>0
  <2> HIDE DEF p
  <2>2. p[0] = s /\ p[la] = x[la]
    BY <1>0, <1>2, <2>1
  <2>3. ASSUME NEW i \in 1 .. la PROVE Reads(p[i - 1], a[i], p[i])
    <3>1. i \in 1 .. la + lb /\ i \in 0 .. la /\ i - 1 \in 0 .. la
      BY <1>0
    <3>2. p[i - 1] = x[i - 1] /\ p[i] = x[i] /\ (a \o b)[i] = a[i]
      BY <1>1, <2>1, <3>1
    <3>3. Reads(x[i - 1], (a \o b)[i], x[i])
      BY <1>2, <3>1
    <3> QED
      BY <3>2, <3>3
  <2> QED
    BY <2>1, <2>2, <2>3 DEF Path
<1>4. Path(x[la], b, t)
  <2> DEFINE r == [i \in 0 .. lb |-> x[la + i]]
  <2>1. /\ r \in [0 .. lb -> Views]
        /\ \A i \in 0 .. lb : r[i] = x[la + i]
    BY <1>0
  <2> HIDE DEF r
  <2>2. r[0] = x[la] /\ r[lb] = t
    BY <1>0, <1>2, <2>1
  <2>3. ASSUME NEW i \in 1 .. lb PROVE Reads(r[i - 1], b[i], r[i])
    <3>1. /\ la + i \in 1 .. la + lb /\ i \in 0 .. lb /\ i - 1 \in 0 .. lb
          /\ la + (i - 1) = (la + i) - 1
      BY <1>0
    <3>2. r[i - 1] = x[(la + i) - 1] /\ r[i] = x[la + i] /\ (a \o b)[la + i] = b[i]
      BY <1>1, <2>1, <3>1
    <3>3. Reads(x[(la + i) - 1], (a \o b)[la + i], x[la + i])
      BY <1>2, <3>1
    <3> QED
      BY <3>2, <3>3
  <2> QED
    BY <2>1, <2>2, <2>3 DEF Path
<1>5. x[la] \in Views
  BY <1>0
<1> QED
  BY <1>3, <1>4, <1>5

(* The same message several times, when once is enough. *)
LEMMA PathMany ==
  ASSUME NEW k \in Nat, NEW m, NEW s \in Views, NEW t \in Views,
         IF k = 0 THEN s = t ELSE Reads(s, m, t) /\ Reads(t, m, t)
  PROVE  Path(s, [i \in 1 .. k |-> m], t)
<1> DEFINE q == [i \in 1 .. k |-> m]
           p == [i \in 0 .. k |-> IF i = 0 THEN s ELSE t]
<1>1. Len(q) = k /\ \A i \in 1 .. k : q[i] = m
  OBVIOUS
<1>2. p \in [0 .. k -> Views]
  OBVIOUS
<1>3. p[0] = s /\ \A i \in 1 .. k : p[i] = t
  OBVIOUS
<1> HIDE DEF p, q
<1>4. p[k] = t
  <2>1. CASE k = 0
    BY <1>3, <2>1
  <2>2. CASE k # 0
    BY <1>3, <2>2
  <2> QED
    BY <2>1, <2>2
<1>5. ASSUME NEW i \in 1 .. k PROVE Reads(p[i - 1], q[i], p[i])
  <2>0. k # 0
    OBVIOUS
  <2>1. CASE i = 1
    BY <1>1, <1>3, <2>0, <2>1
  <2>2. CASE i # 1
    <3>1. i - 1 \in 1 .. k
      BY <2>2
    <3> QED
      BY <1>1, <1>3, <2>0, <3>1
  <2> QED
    BY <2>1, <2>2
<1>6. Path(s, q, t)
  BY <1>1, <1>2, <1>3, <1>4, <1>5 DEF Path
<1> QED
  BY <1>6 DEF q

-------------------------------------------------------------------------------
(* What a bot is to know: how the server sees its channels.                  *)
Present(ch) == {nick[d] : d \in members[ch]}

Truth(c) ==
  [real |-> IF nick[c] = NoNick THEN 0 ELSE nick[c],
   channels |-> joined[c],
   users |-> [ch \in Channels |-> IF ch \in joined[c] THEN Present(ch) ELSE {}]]

Coming(c) == wire[c] \o sendQueue[c]

(* What is under way to a bot can be read, and brings it to the truth.       *)
Tracked(c) ==
  \E t \in Views : /\ Path(View(c), Coming(c), t)
                   /\ link[c] = "open" => t = Truth(c)

(* The channels of a handler and of the bot at the ends of a connection.     *)
Ends(c) ==
  /\ link[c] \in {"off", "quit", "left"} =>
       /\ channels[c] = {}
       /\ \A ch \in Channels : users[c][ch] = {}
  /\ link[c] = "open" => \A ch \in joined[c] : c \in members[ch]
  /\ link[c] \in {"off", "cut"} => joined[c] = {}

AllEnds == \A c \in Clients : Ends(c)
AllTracked == \A c \in Clients : Tracked(c)

TInv == IInv /\ AllEnds /\ (~hasty => failed = {} /\ AllTracked)

Typed == \A c \in Clients : View(c) \in Views /\ Truth(c) \in Views

LEMMA ViewTypes == IInv => Typed
<1> SUFFICES ASSUME IInv, NEW c \in Clients
             PROVE  View(c) \in Views /\ Truth(c) \in Views
  BY DEF Typed
<1>0. ConnTypes /\ ServerTypes /\ TrackerTypes
  BY TypeParts DEF IInv
<1>1. View(c) \in Views
  BY <1>0 DEF View, Views, ConnTypes, TrackerTypes
<1>2. \A ch \in Channels : Present(ch) \in SUBSET Nicks
  BY <1>0 DEF Present, IInv, ServerAgrees, ServerTypes
<1>3. nick[c] = NoNick \/ nick[c] \in Nicks
  BY <1>0 DEF ServerTypes
<1>4. Truth(c) \in Views
  BY <1>0, <1>2, <1>3, NickFacts DEF Truth, Views, ServerTypes
<1> QED
  BY <1>1, <1>4

LEMMA NextViewTypes == IInv' => Typed'
BY ViewTypes, PTL

LEMMA ComingTypes ==
  ASSUME IInv, NEW c \in Clients
  PROVE  /\ wire[c] \in Seq(Message)
         /\ sendQueue[c] \in Seq(Message)
         /\ Coming(c) \in Seq(Message)
<1>0. ConnTypes
  BY TypeParts DEF IInv
<1>1. wire[c] \in Seq(Message) /\ sendQueue[c] \in Seq(Message)
  BY <1>0 DEF ConnTypes
<1> QED
  BY <1>1 DEF Coming

LEMMA LaterComing ==
  ASSUME IInv, NEW c \in Clients, NEW q \in Seq(Message)
  PROVE  Coming(c) \o q = wire[c] \o (sendQueue[c] \o q)
<1> DEFINE w == wire[c]
           s == sendQueue[c]
<1>1. w \in Seq(Message) /\ s \in Seq(Message)
  BY ComingTypes
<1>2. Coming(c) = w \o s
  BY DEF Coming
<1> HIDE DEF w, s
<1>3. (w \o s) \o q = w \o (s \o q)
  BY <1>1, ThreeQueues
<1>4. Coming(c) \o q = w \o (s \o q)
  BY <1>2, <1>3
<1> QED
  BY <1>4 DEF w, s

LEMMA SameView ==
  ASSUME NEW s \in Views, NEW t \in Views, s.real = t.real, s.channels = t.channels,
         \A ch \in Channels : s.users[ch] = t.users[ch]
  PROVE  s = t
<1>1. s.users = t.users
  BY DEF Views
<1> QED
  BY <1>1 DEF Views

LEMMA NicksApart ==
  ASSUME IInv, NEW c \in Clients, NEW d \in Clients, nick[c] # NoNick,
         nick[c] = nick[d]
  PROVE  c = d
BY DEF IInv, ServerAgrees

(* A client is in the channels its handler has, while the connection is open. *)
LEMMA InChannels ==
  ASSUME IInv, AllEnds, NEW c \in Clients, NEW ch \in Channels
  PROVE  /\ c \in members[ch] => ch \in joined[c] /\ nick[c] \in Nicks
         /\ link[c] = "open" => (ch \in joined[c] <=> c \in members[ch])
<1>0. ServerTypes
  BY TypeParts DEF IInv
<1> QED
  BY <1>0 DEF IInv, ServerAgrees, ServerTypes, AllEnds, Ends

(* Who is not told anything keeps its path. *)
LEMMA StayTracked ==
  ASSUME NEW c \in Clients, Tracked(c),
         View(c)' = View(c), Coming(c)' = Coming(c),
         link'[c] = "open" => link[c] = "open" /\ Truth(c)' = Truth(c)
  PROVE  Tracked(c)'
BY DEF Tracked

(* What is appended leads from the old truth to the new one. *)
LEMMA AppendTracked ==
  ASSUME IInv, IInv', NEW c \in Clients, Tracked(c), link[c] = "open",
         View(c)' = View(c), wire'[c] = wire[c],
         NEW q \in Seq(Message), sendQueue'[c] = sendQueue[c] \o q,
         Path(Truth(c), q, Truth(c)')
  PROVE  Tracked(c)'
<1>1. Path(View(c), Coming(c), Truth(c))
  BY DEF Tracked
<1>2. Path(View(c), Coming(c) \o q, Truth(c)')
  BY <1>1, ComingTypes, PathJoin
<1>3. Coming(c)' = Coming(c) \o q
  <2>1. Coming(c) \o q = wire[c] \o (sendQueue[c] \o q)
    BY LaterComing
  <2> QED
    BY <2>1 DEF Coming
<1>4. Truth(c)' \in Views
  BY NextViewTypes DEF Typed
<1>5. Path(View(c)', Coming(c)', Truth(c)')
  BY <1>2, <1>3
<1> QED
  BY <1>4, <1>5 DEF Tracked

(* A message about c reaches d once for each channel they share. *)
LEMMA ToldTracked ==
  ASSUME IInv, IInv', NEW c \in Clients, NEW d \in Clients \ {c}, NEW m,
         Tracked(d), sendQueue' = Told(c, m), link'[d] = link[d],
         View(d)' = View(d), wire'[d] = wire[d],
         link[d] = "open" =>
           IF Shared(c, d) = {} THEN Truth(d)' = Truth(d)
           ELSE /\ m \in Message
                /\ Reads(Truth(d), m, Truth(d)')
                /\ Reads(Truth(d)', m, Truth(d)')
  PROVE  Tracked(d)'
<1>0. ServerTypes
  BY TypeParts DEF IInv
<1>1. CASE link[d] # "open"
  <2>1. sendQueue'[d] = sendQueue[d]
    BY <1>1 DEF Told
  <2> QED
    BY <1>1, <2>1, StayTracked DEF Coming
<1>2. CASE link[d] = "open"
  <2> DEFINE k == Cardinality(Shared(c, d))
             q == [i \in 1 .. k |-> m]
  <2>1. sendQueue'[d] = sendQueue[d] \o q
    BY <1>2 DEF Told
  <2>2. Shared(c, d) \subseteq Channels
    BY <1>0 DEF Shared, ServerTypes
  <2>3. k \in Nat /\ (k = 0 <=> Shared(c, d) = {})
    BY <2>2, TrackingAssumption, FS_Subset, FS_CardinalityType, FS_EmptySet
  <2>5. IF k = 0 THEN Truth(d) = Truth(d)'
        ELSE Reads(Truth(d), m, Truth(d)') /\ Reads(Truth(d)', m, Truth(d)')
    BY <1>2, <2>3
  <2>6. k = 0 \/ m \in Message
    BY <1>2, <2>3
  <2> HIDE DEF k
  <2>4. Truth(d) \in Views /\ Truth(d)' \in Views
    BY ViewTypes, NextViewTypes DEF Typed
  <2>8. Path(Truth(d), q, Truth(d)')
    BY <2>3, <2>4, <2>5, PathMany
  <2>9. q \in Seq(Message)
    BY <2>3, <2>6
  <2> HIDE DEF q
  <2> QED
    BY <1>2, <2>1, <2>8, <2>9, AppendTracked
<1> QED
  BY <1>1, <1>2

-------------------------------------------------------------------------------
(* The commands of the server, once more. *)
(* The server's side of a connection that nothing happens to. *)
Still(c) == View(c)' = View(c) /\ wire'[c] = wire[c] /\ link'[c] = link[c]

LEMMA StillTracked ==
  ASSUME NEW c \in Clients, Tracked(c), Still(c), sendQueue'[c] = sendQueue[c],
         link[c] = "open" => Truth(c)' = Truth(c)
  PROVE  Tracked(c)'
<1>1. Coming(c)' = Coming(c)
  BY DEF Coming, Still
<1> QED
  BY <1>1, StayTracked DEF Still

LEMMA InUseTracked ==
  ASSUME IInv, IInv', AllTracked, NEW c \in Clients, NEW n \in Nicks,
         NickInUse(c, n),
         UNCHANGED <<link, realNick, welcomed, tracker, failed>>
  PROVE  AllTracked'
<1>0. ConnTypes
  BY TypeParts DEF IInv
<1>1. ASSUME NEW d \in Clients
      PROVE  View(d)' = View(d) /\ Truth(d)' = Truth(d)
  BY DEF NickInUse, server, tracker, View, Truth, Present
<1>2. ASSUME NEW d \in Clients \ {c} PROVE Tracked(d)'
  <2>1. Still(d) /\ sendQueue'[d] = sendQueue[d]
    BY <1>0, <1>1 DEF Still, NickInUse, ConnTypes
  <2> QED
    BY <1>1, <2>1, StillTracked DEF AllTracked
<1>3. Tracked(c)'
  <2> DEFINE m == [type |-> "inuse", who |-> n]
  <2>1. PICK t \in Views : /\ Path(View(c), wire[c] \o sendQueue[c], t)
                           /\ link[c] = "open" => t = Truth(c)
    BY DEF AllTracked, Tracked, Coming
  <2>2. PICK u \in Views : Path(View(c), wire[c], u) /\ Path(u, sendQueue[c], t)
    BY <2>1, ComingTypes, PathSplit
  <2>3. Reads(u, m, u)
    BY DEF Reads, Knows, RealAfter, ChannelsAfter, UsersAfter
  <2>4. m \in Message
    BY MessageTypes
  <2>5. wire'[c] = wire[c] \o <<m>> /\ sendQueue'[c] = sendQueue[c]
    BY <1>0 DEF NickInUse, ConnTypes
  <2> HIDE DEF m
  <2>6. <<m>> \in Seq(Message)
    BY <2>4
  <2>7. Path(View(c), wire[c] \o <<m>>, u)
    BY <2>2, <2>3, <2>6, ComingTypes, PathOne, PathJoin
  <2>8. wire[c] \o <<m>> \in Seq(Message)
    BY <2>6, ComingTypes
  <2>9. Path(View(c), (wire[c] \o <<m>>) \o sendQueue[c], t)
    BY <2>2, <2>7, <2>8, ComingTypes, PathJoin
  <2> QED
    BY <1>1, <2>1, <2>5, <2>9 DEF Tracked, Coming
<1> QED
  BY <1>2, <1>3 DEF AllTracked

LEMMA RegisterTracked ==
  ASSUME IInv, IInv', AllEnds, AllTracked, NEW c \in Clients, NEW n \in Nicks,
         link[c] = "open", Register(c, n),
         UNCHANGED <<link, realNick, welcomed, tracker, failed>>
  PROVE  AllTracked'
<1>0. ConnTypes /\ ServerTypes
  BY TypeParts DEF IInv
<1>1. \A ch \in Channels : c \notin members[ch] /\ ch \notin joined[c]
  BY InChannels, NickFacts DEF Register
<1>2. \A ch \in Channels : Present(ch)' = Present(ch)
  <2> SUFFICES ASSUME NEW ch \in Channels PROVE Present(ch)' = Present(ch)
    OBVIOUS
  <2>1. \A e \in members[ch] : nick'[e] = nick[e]
    BY <1>0, <1>1 DEF Register, ServerTypes
  <2> QED
    BY <2>1 DEF Present, Register
<1>3. ASSUME NEW d \in Clients \ {c} PROVE Tracked(d)'
  <2>1. Still(d) /\ sendQueue'[d] = sendQueue[d]
    BY <1>0 DEF Still, View, Register, tracker, ConnTypes
  <2>2. nick'[d] = nick[d] /\ joined' = joined
    BY <1>0 DEF Register, ServerTypes
  <2>3. Truth(d)' = Truth(d)
    BY <1>2, <2>2 DEF Truth
  <2> QED
    BY <2>1, <2>3, StillTracked DEF AllTracked
<1>4. Tracked(c)'
  <2> DEFINE m == [type |-> "welcome", who |-> n]
  <2>1. nick[c] = NoNick /\ nick'[c] = n /\ n # NoNick /\ joined' = joined
    BY <1>0, NickFacts DEF Register, ServerTypes
  <2>2. /\ Truth(c).channels = joined[c] /\ Truth(c)'.channels = joined[c]
        /\ Truth(c)'.real = n
        /\ \A ch \in Channels : Truth(c)'.users[ch] = Truth(c).users[ch]
    BY <1>1, <2>1 DEF Truth
  <2>3. Reads(Truth(c), m, Truth(c)')
    BY <2>2 DEF Reads, Knows, RealAfter, ChannelsAfter, UsersAfter
  <2>4. m \in Message
    BY MessageTypes
  <2>5. sendQueue'[c] = sendQueue[c] \o <<m>>
    BY <1>0 DEF Register, ConnTypes
  <2> HIDE DEF m
  <2>6. <<m>> \in Seq(Message)
    BY <2>4
  <2>7. Path(Truth(c), <<m>>, Truth(c)')
    BY <2>3, ViewTypes, NextViewTypes, PathOne DEF Typed
  <2>8. View(c)' = View(c) /\ wire'[c] = wire[c]
    BY DEF View, Register, tracker
  <2> QED
    BY <2>5, <2>6, <2>7, <2>8, AppendTracked DEF AllTracked
<1> QED
  BY <1>3, <1>4 DEF AllTracked

LEMMA ChangeNickTracked ==
  ASSUME IInv, IInv', AllEnds, AllTracked, NEW c \in Clients, NEW n \in Nicks,
         link[c] = "open", ChangeNick(c, n), ~hasty',
         UNCHANGED <<link, realNick, welcomed, tracker, failed>>
  PROVE  AllTracked'
<1>0. ConnTypes /\ ServerTypes
  BY TypeParts DEF IInv
<1> DEFINE m == [type |-> "nick", who |-> nick[c], to |-> n]
<1>1. /\ nick[c] \in Nicks /\ nick[c] # n /\ n # NoNick
      /\ nick'[c] = n
      /\ \A e \in Clients \ {c} : nick'[e] = nick[e]
      /\ joined' = joined /\ members' = members
      /\ sendQueue' = Told(c, m)
      /\ \A e \in Clients : nick[e] # n
  BY <1>0, NickFacts, TrackingAssumption
     DEF ChangeNick, ServerTypes, IInv, ServerAgrees
<1>2. /\ m.type = "nick" /\ m.who = nick[c] /\ m.to = n
      /\ m \in Message
  BY <1>1, MessageTypes
<1>3. sendQueue[c] = <<>> /\ wire'[c] = Append(wire[c], m)
  BY <1>0 DEF ChangeNick, ConnTypes
<1> HIDE DEF m
<1>4. ASSUME NEW ch \in Channels
      PROVE  /\ c \notin members[ch] => /\ Present(ch)' = Present(ch)
                                        /\ nick[c] \notin Present(ch)
             /\ Renamed(Present(ch), m) = Present(ch)'
             /\ Renamed(Present(ch)', m) = Present(ch)'
  <2>1. members[ch] \subseteq Clients
    BY <1>0 DEF ServerTypes
  <2>2. \A e \in members[ch] : nick[e] = nick[c] => e = c
    BY <1>1, <2>1, NicksApart, NickFacts
  <2>3. nick[c] \notin Present(ch)'
    <3> SUFFICES ASSUME NEW e \in members[ch], nick'[e] = nick[c] PROVE FALSE
      BY <1>1 DEF Present
    <3> QED
      BY <1>1, <2>1, <2>2
  <2>4. CASE c \in members[ch]
    <3>1. nick[c] \in Present(ch)
      BY <2>4 DEF Present
    <3>2. Present(ch)' = (Present(ch) \ {nick[c]}) \cup {n}
      <4>1. ASSUME NEW x \in Present(ch)' PROVE x \in (Present(ch) \ {nick[c]}) \cup {n}
        <5>1. PICK e \in members[ch] : x = nick'[e]
          BY <1>1 DEF Present
        <5> QED
          BY <1>1, <2>1, <2>2, <5>1 DEF Present
      <4>2. ASSUME NEW x \in Present(ch), x # nick[c] PROVE x \in Present(ch)'
        <5>1. PICK e \in members[ch] : x = nick[e]
          BY DEF Present
        <5> QED
          BY <1>1, <2>1, <4>2, <5>1 DEF Present
      <4>3. n \in Present(ch)'
        BY <1>1, <2>4 DEF Present
      <4> QED
        BY <4>1, <4>2, <4>3
    <3> QED
      BY <1>2, <2>3, <2>4, <3>1, <3>2 DEF Renamed
  <2>5. CASE c \notin members[ch]
    <3>1. \A e \in members[ch] : nick'[e] = nick[e] /\ nick[e] # nick[c]
      BY <1>1, <2>1, <2>2, <2>5
    <3>2. Present(ch)' = Present(ch) /\ nick[c] \notin Present(ch)
      BY <1>1, <3>1 DEF Present
    <3> QED
      BY <1>2, <3>2 DEF Renamed
  <2> QED
    BY <2>4, <2>5
<1>5. ASSUME NEW d \in Clients \ {c} PROVE Tracked(d)'
  <2>1. Still(d)
    BY <1>0 DEF Still, View, ChangeNick, tracker, ConnTypes
  <2>2. ASSUME link[d] = "open", Shared(c, d) = {} PROVE Truth(d)' = Truth(d)
    <3>1. \A ch \in Channels : ch \in joined[d] => c \notin members[ch]
      BY <1>0, <2>2, InChannels DEF Shared
    <3>2. \A ch \in Channels : ch \in joined[d] => Present(ch)' = Present(ch)
      BY <1>4, <3>1
    <3> QED
      BY <1>1, <3>2 DEF Truth
  <2>3. ASSUME link[d] = "open", Shared(c, d) # {}
        PROVE  Reads(Truth(d), m, Truth(d)') /\ Reads(Truth(d)', m, Truth(d)')
    <3>1. nick[d] \in Nicks
      BY <1>0, <2>3, InChannels DEF Shared, ServerTypes
    <3>2. nick[d] # nick[c] /\ nick[d] # NoNick /\ nick'[d] = nick[d]
      BY <1>1, <3>1, NicksApart, NickFacts
    <3>3. /\ Truth(d).real = nick[d] /\ Truth(d)'.real = nick[d]
          /\ Truth(d).channels = joined[d] /\ Truth(d)'.channels = joined[d]
      BY <1>1, <3>2 DEF Truth
    <3>4. \A ch \in Channels :
            /\ Truth(d)'.users[ch] = Renamed(Truth(d).users[ch], m)
            /\ Truth(d)'.users[ch] = Renamed(Truth(d)'.users[ch], m)
      BY <1>1, <1>4 DEF Truth, Renamed
    <3> QED
      BY <1>2, <3>2, <3>3, <3>4 DEF Reads, Knows, RealAfter, ChannelsAfter, UsersAfter
  <2> QED
    BY <1>1, <1>2, <2>1, <2>2, <2>3, ToldTracked DEF AllTracked, Still
<1>6. Tracked(c)'
  <2>1. View(c)' = View(c)
    BY DEF View, ChangeNick, tracker
  <2>2. /\ Truth(c).real = nick[c] /\ Truth(c)'.real = n
        /\ Truth(c).channels = joined[c] /\ Truth(c)'.channels = joined[c]
    BY <1>1, NickFacts DEF Truth
  <2>3. \A ch \in Channels : Truth(c)'.users[ch] = Renamed(Truth(c).users[ch], m)
    BY <1>1, <1>4 DEF Truth, Renamed
  <2>4. Reads(Truth(c), m, Truth(c)')
    BY <1>2, <2>2, <2>3 DEF Reads, Knows, RealAfter, ChannelsAfter, UsersAfter
  <2>5. Path(Truth(c), <<m>>, Truth(c)')
    BY <2>4, ViewTypes, NextViewTypes, PathOne DEF Typed
  <2>6. Coming(c) = wire[c]
    BY <1>3, ComingTypes, ConcatEmptySeq DEF Coming
  <2>7. Path(View(c), wire[c], Truth(c))
    BY <2>6 DEF AllTracked, Tracked
  <2>8. <<m>> \in Seq(Message)
    BY <1>2
  <2>9. Path(View(c), wire[c] \o <<m>>, Truth(c)')
    BY <2>5, <2>7, <2>8, ComingTypes, PathJoin
  <2>10. Coming(c)' = wire[c] \o <<m>>
    <3>1. wire'[c] = wire[c] \o <<m>>
      BY <1>3, ComingTypes
    <3>2. sendQueue'[c] = <<>>
      BY <1>1, <1>3 DEF Told
    <3>3. wire[c] \o <<m>> \in Seq(Message)
      BY <2>8, ComingTypes
    <3> QED
      BY <3>1, <3>2, <3>3, ConcatEmptySeq DEF Coming
  <2> QED
    BY <2>1, <2>9, <2>10, NextViewTypes DEF Tracked, Typed
<1> QED
  BY <1>5, <1>6 DEF AllTracked

LEMMA NickTracked ==
  ASSUME IInv, IInv', AllEnds, AllTracked, ~hasty', NEW c \in Clients,
         HandleNick(c) \/ \E n \in Nicks : Rename(c, n)
  PROVE  AllTracked'
<1>0. ConnTypes
  BY TypeParts DEF IInv
<1>1. PICK n \in Nicks : NickCommand(c, n)
  BY <1>0 DEF HandleNick, Rename, ConnTypes
<1>2. link[c] = "open" /\ UNCHANGED <<link, realNick, welcomed, tracker, failed>>
  BY <1>1 DEF NickCommand
<1>3. CASE AlreadyMine(c, n)
  <2>1. ASSUME NEW d \in Clients PROVE Tracked(d)'
    <3>1. /\ Still(d) /\ sendQueue'[d] = sendQueue[d]
          /\ Truth(d)' = Truth(d)
      BY <1>2, <1>3 DEF AlreadyMine, server, tracker, Still, View, Truth, Present
    <3> QED
      BY <3>1, StillTracked DEF AllTracked
  <2> QED
    BY <2>1 DEF AllTracked
<1> QED
  BY <1>1, <1>2, <1>3, InUseTracked, RegisterTracked, ChangeNickTracked
     DEF NickCommand

LEMMA JoinTracked ==
  ASSUME IInv, IInv', AllEnds, AllTracked, NEW c \in Clients, NEW ch \in Channels,
         HandleJoin(c, ch)
  PROVE  AllTracked'
<1>0. ConnTypes /\ ServerTypes /\ Good(c) /\ link[c] = "open" /\ welcomed[c]
  BY TypeParts DEF IInv, AllGood, HandleJoin
<1>1. nick[c] \in Nicks /\ nick[c] # NoNick
  BY <1>0, NickFacts DEF Good, ServerTypes
<1>2. /\ members'[ch] = members[ch] \cup {c}
      /\ \A h \in Channels : h # ch => members'[h] = members[h]
      /\ joined'[c] = joined[c] \cup {ch}
      /\ \A d \in Clients : d # c => joined'[d] = joined[d]
      /\ nick' = nick
  BY <1>0 DEF HandleJoin, ServerTypes
<1>3. /\ Present(ch)' = Present(ch) \cup {nick[c]}
      /\ \A h \in Channels : h # ch => Present(h)' = Present(h)
  BY <1>2 DEF Present
<1> DEFINE m == [type |-> "join", who |-> nick[c], ch |-> ch]
           l == [type |-> "names", ch |-> ch, who |-> NicksIn(ch)]
<1>4. \A d \in Clients : Still(d)
  BY DEF Still, View, HandleJoin, bot, tracker
<1>5. NicksIn(ch) = Present(ch)'
  BY <1>2 DEF NicksIn, Present
<1>6. m \in Message /\ l \in Message
  <2>1. c \in members'[ch]
    BY <1>2
  <2>2. Present(ch)' \in SUBSET Nicks
    <3>1. \A d \in members[ch] : nick[d] \in Nicks
      BY <1>0, InChannels DEF ServerTypes
    <3> QED
      BY <1>1, <1>3, <3>1 DEF Present
  <2> QED
    BY <1>1, <1>5, <2>2, MessageTypes
<1>7. sendQueue' = [d \in Clients |->
                      IF d \in members'[ch] /\ link[d] = "open"
                      THEN sendQueue[d] \o <<m>> \o (IF d = c THEN <<l>> ELSE <<>>)
                      ELSE sendQueue[d]]
  BY DEF HandleJoin
<1>8. /\ m.type = "join" /\ m.who = nick[c] /\ m.ch = ch
      /\ l.type = "names" /\ l.who = Present(ch)' /\ l.ch = ch
  BY <1>5
<1> HIDE DEF m, l
<1>9. /\ <<m>> \in Seq(Message) /\ <<l>> \in Seq(Message)
      /\ \A d \in Clients : sendQueue[d] \o <<m>> \in Seq(Message)
  BY <1>6, ComingTypes
<1>10. ASSUME NEW d \in Clients \ {c} PROVE Tracked(d)'
  <2>1. CASE d \in members'[ch] /\ link[d] = "open"
    <3>1. d \in members[ch] /\ ch \in joined[d]
      BY <1>2, <2>1, InChannels
    <3>2. nick[d] # NoNick /\ nick[d] # nick[c]
      BY <1>1, <3>1, NicksApart DEF IInv, ServerAgrees
    <3>3. /\ Truth(d).real = nick[d] /\ Truth(d)'.real = nick[d]
          /\ Truth(d).channels = joined[d] /\ Truth(d)'.channels = joined[d]
      BY <1>2, <3>2 DEF Truth
    <3>4. /\ Truth(d)'.users[ch] = Truth(d).users[ch] \cup {nick[c]}
          /\ \A h \in Channels : h # ch => Truth(d)'.users[h] = Truth(d).users[h]
      BY <1>2, <1>3, <3>1 DEF Truth
    <3>5. Reads(Truth(d), m, Truth(d)')
      <4>1. Knows(Truth(d), m)
        BY <1>8, <3>1, <3>3 DEF Knows
      <4>2. RealAfter(Truth(d), m) = nick[d]
        BY <1>8, <3>3 DEF RealAfter
      <4>3. ChannelsAfter(Truth(d), m) = joined[d]
        BY <1>8, <3>1, <3>3 DEF ChannelsAfter
      <4>4. \A h \in Channels : UsersAfter(Truth(d), m, h) = Truth(d)'.users[h]
        BY <1>8, <3>2, <3>3, <3>4 DEF UsersAfter
      <4> QED
        BY <3>3, <4>1, <4>2, <4>3, <4>4 DEF Reads
    <3>6. Path(Truth(d), <<m>>, Truth(d)')
      BY <3>5, ViewTypes, NextViewTypes, PathOne DEF Typed
    <3>7. sendQueue'[d] = sendQueue[d] \o <<m>>
      <4>1. sendQueue'[d] = (sendQueue[d] \o <<m>>) \o <<>>
        BY <1>7, <2>1
      <4> QED
        BY <1>9, <4>1, ConcatEmptySeq
    <3> QED
      BY <1>4, <1>9, <2>1, <3>6, <3>7, AppendTracked DEF AllTracked, Still
  <2>2. CASE ~(d \in members'[ch] /\ link[d] = "open")
    <3>1. sendQueue'[d] = sendQueue[d]
      BY <1>7, <2>2
    <3>2. ASSUME link[d] = "open" PROVE Truth(d)' = Truth(d)
      <4>1. ch \notin joined[d]
        BY <1>2, <2>2, <3>2, InChannels
      <4> QED
        BY <1>2, <1>3, <4>1 DEF Truth
    <3> QED
      BY <1>4, <3>1, <3>2, StillTracked DEF AllTracked
  <2> QED
    BY <2>1, <2>2
<1>11. Tracked(c)'
  <2> DEFINE w == [real |-> nick[c], channels |-> joined'[c],
                   users |-> [h \in Channels |->
                      IF h = ch THEN {nick[c]} ELSE Truth(c).users[h]]]
  <2>1. w \in Views
    <3>1. Truth(c) \in Views
      BY ViewTypes DEF Typed
    <3>2. joined'[c] \in SUBSET Channels
      BY <1>0, <1>2 DEF ServerTypes
    <3> QED
      BY <1>1, <3>1, <3>2 DEF Views
  <2>2. /\ Truth(c).real = nick[c] /\ Truth(c)'.real = nick[c]
        /\ Truth(c).channels = joined[c] /\ Truth(c)'.channels = joined'[c]
    BY <1>1, <1>2 DEF Truth
  <2>3. /\ Truth(c)'.users[ch] = Present(ch)'
        /\ \A h \in Channels : h # ch => Truth(c)'.users[h] = Truth(c).users[h]
    BY <1>2, <1>3 DEF Truth
  <2>4. /\ w.real = nick[c] /\ w.channels = joined'[c]
        /\ w.users[ch] = {nick[c]}
        /\ \A h \in Channels : h # ch => w.users[h] = Truth(c).users[h]
    OBVIOUS
  <2> HIDE DEF w
  <2>5. Reads(Truth(c), m, w)
    <3>1. /\ Knows(Truth(c), m)
          /\ RealAfter(Truth(c), m) = nick[c]
          /\ ChannelsAfter(Truth(c), m) = joined'[c]
      BY <1>2, <1>8, <2>2 DEF Knows, RealAfter, ChannelsAfter
    <3>2. \A h \in Channels : UsersAfter(Truth(c), m, h) = w.users[h]
      BY <1>8, <2>2, <2>4 DEF UsersAfter
    <3> QED
      BY <2>4, <3>1, <3>2 DEF Reads
  <2>6. Reads(w, l, Truth(c)')
    <3>1. /\ Knows(w, l)
          /\ RealAfter(w, l) = nick[c]
          /\ ChannelsAfter(w, l) = joined'[c]
      BY <1>2, <1>8, <2>4 DEF Knows, RealAfter, ChannelsAfter
    <3>2. w.users[ch] \cup Present(ch)' = Present(ch)'
      BY <1>3, <2>4
    <3>3. \A h \in Channels : UsersAfter(w, l, h) = Truth(c)'.users[h]
      BY <1>8, <2>3, <2>4, <3>2 DEF UsersAfter
    <3> QED
      BY <2>2, <3>1, <3>3 DEF Reads
  <2>7. Path(Truth(c), <<m>> \o <<l>>, Truth(c)')
    <3>1. Path(Truth(c), <<m>>, w) /\ Path(w, <<l>>, Truth(c)')
      BY <2>1, <2>5, <2>6, ViewTypes, NextViewTypes, PathOne DEF Typed
    <3> QED
      BY <1>9, <3>1, PathJoin
  <2>8. /\ sendQueue'[c] = sendQueue[c] \o (<<m>> \o <<l>>)
        /\ <<m>> \o <<l>> \in Seq(Message)
    <3>1. sendQueue'[c] = (sendQueue[c] \o <<m>>) \o <<l>>
      BY <1>0, <1>2, <1>7
    <3> QED
      BY <1>9, <3>1, ThreeQueues, ComingTypes
  <2> QED
    BY <1>0, <1>4, <2>7, <2>8, AppendTracked DEF AllTracked, Still
<1> QED
  BY <1>10, <1>11 DEF AllTracked

LEMMA PartTracked ==
  ASSUME IInv, IInv', AllEnds, AllTracked, NEW c \in Clients, NEW ch \in Channels,
         HandlePart(c, ch)
  PROVE  AllTracked'
<1>0. ConnTypes /\ ServerTypes /\ Good(c) /\ link[c] = "open" /\ welcomed[c]
  BY TypeParts DEF IInv, AllGood, HandlePart
<1>1. nick[c] \in Nicks /\ nick[c] # NoNick
  BY <1>0, NickFacts DEF Good, ServerTypes
<1> DEFINE m == [type |-> "part", who |-> nick[c], ch |-> ch]
<1>2. /\ members'[ch] = members[ch] \ {c}
      /\ \A h \in Channels : h # ch => members'[h] = members[h]
      /\ \A d \in Clients : d # c => joined'[d] = joined[d]
      /\ nick' = nick /\ wire' = wire
      /\ \A d \in Clients : View(d)' = View(d)
      /\ \A d \in Clients : d # c => link'[d] = link[d]
  BY <1>0 DEF HandlePart, ServerTypes, ConnTypes, View, bot, tracker
<1>3. /\ Present(ch)' = Present(ch) \ {nick[c]}
      /\ \A h \in Channels : h # ch => Present(h)' = Present(h)
  <2>1. \A d \in members[ch] : nick[d] = nick[c] => d = c
    BY <1>0, <1>1, NicksApart DEF ServerTypes
  <2>2. Present(ch)' \subseteq Present(ch) \ {nick[c]}
    BY <1>2, <2>1 DEF Present
  <2>3. Present(ch) \ {nick[c]} \subseteq Present(ch)'
    BY <1>2 DEF Present
  <2> QED
    BY <1>2, <2>2, <2>3 DEF Present
<1>4. /\ m \in Message /\ m.type = "part" /\ m.who = nick[c] /\ m.ch = ch
  BY <1>1, MessageTypes
<1>5. sendQueue' = [d \in Clients |->
         IF d = c /\ c \notin members[ch] THEN <<>>
         ELSE IF d \in members[ch] /\ link[d] = "open" THEN Append(sendQueue[d], m)
         ELSE sendQueue[d]]
  BY DEF HandlePart
<1> HIDE DEF m
<1>6. <<m>> \in Seq(Message)
  BY <1>4
<1>7. \A d \in Clients : Append(sendQueue[d], m) = sendQueue[d] \o <<m>>
  BY ComingTypes
<1>8. ASSUME NEW d \in Clients \ {c} PROVE Tracked(d)'
  <2>1. CASE d \in members[ch] /\ link[d] = "open"
    <3>1. ch \in joined[d]
      BY <2>1, InChannels
    <3>2. nick[d] # NoNick /\ nick[d] # nick[c]
      BY <1>1, <2>1, NicksApart DEF IInv, ServerAgrees
    <3>3. /\ Truth(d).real = nick[d] /\ Truth(d)'.real = nick[d]
          /\ Truth(d).channels = joined[d] /\ Truth(d)'.channels = joined[d]
      BY <1>2, <3>2 DEF Truth
    <3>4. /\ Truth(d)'.users[ch] = Truth(d).users[ch] \ {nick[c]}
          /\ \A h \in Channels : h # ch => Truth(d)'.users[h] = Truth(d).users[h]
      BY <1>2, <1>3, <3>1 DEF Truth
    <3>5. Reads(Truth(d), m, Truth(d)')
      <4>1. /\ Knows(Truth(d), m)
            /\ RealAfter(Truth(d), m) = nick[d]
            /\ ChannelsAfter(Truth(d), m) = joined[d]
        BY <1>4, <3>1, <3>2, <3>3 DEF Knows, RealAfter, ChannelsAfter
      <4>2. \A h \in Channels : UsersAfter(Truth(d), m, h) = Truth(d)'.users[h]
        BY <1>4, <3>2, <3>3, <3>4 DEF UsersAfter
      <4> QED
        BY <3>3, <4>1, <4>2 DEF Reads
    <3>6. Path(Truth(d), <<m>>, Truth(d)')
      BY <3>5, ViewTypes, NextViewTypes, PathOne DEF Typed
    <3>7. sendQueue'[d] = sendQueue[d] \o <<m>>
      BY <1>5, <1>7, <2>1
    <3> QED
      BY <1>2, <1>6, <2>1, <3>6, <3>7, AppendTracked DEF AllTracked
  <2>2. CASE ~(d \in members[ch] /\ link[d] = "open")
    <3>1. sendQueue'[d] = sendQueue[d] /\ Still(d)
      BY <1>2, <1>5, <2>2 DEF Still
    <3>2. ASSUME link[d] = "open" PROVE Truth(d)' = Truth(d)
      <4>1. ch \notin joined[d]
        BY <2>2, <3>2, InChannels
      <4> QED
        BY <1>2, <1>3, <4>1 DEF Truth
    <3> QED
      BY <3>1, <3>2, StillTracked DEF AllTracked
  <2> QED
    BY <2>1, <2>2
<1>9. CASE c \in members[ch]
  <2>1. joined'[c] = joined[c] \ {ch} /\ link' = link
    BY <1>0, <1>9 DEF HandlePart, ServerTypes
  <2>2. ch \in joined[c]
    BY <1>9, InChannels
  <2>3. /\ Truth(c).real = nick[c] /\ Truth(c)'.real = nick[c]
        /\ Truth(c).channels = joined[c] /\ Truth(c)'.channels = joined[c] \ {ch}
    BY <1>1, <1>2, <2>1 DEF Truth
  <2>4. /\ Truth(c)'.users[ch] = {}
        /\ \A h \in Channels : h # ch => Truth(c)'.users[h] = Truth(c).users[h]
    BY <1>3, <2>1 DEF Truth
  <2>5. Reads(Truth(c), m, Truth(c)')
    <3>1. /\ Knows(Truth(c), m)
          /\ RealAfter(Truth(c), m) = nick[c]
          /\ ChannelsAfter(Truth(c), m) = joined[c] \ {ch}
      BY <1>4, <2>2, <2>3 DEF Knows, RealAfter, ChannelsAfter
    <3>2. \A h \in Channels : UsersAfter(Truth(c), m, h) = Truth(c)'.users[h]
      BY <1>4, <2>3, <2>4 DEF UsersAfter
    <3> QED
      BY <2>3, <3>1, <3>2 DEF Reads
  <2>6. Path(Truth(c), <<m>>, Truth(c)')
    BY <2>5, ViewTypes, NextViewTypes, PathOne DEF Typed
  <2>7. sendQueue'[c] = sendQueue[c] \o <<m>>
    BY <1>0, <1>5, <1>7, <1>9
  <2>8. Tracked(c)'
    BY <1>0, <1>2, <1>6, <2>6, <2>7, AppendTracked DEF AllTracked
  <2> QED
    BY <1>8, <2>8 DEF AllTracked
<1>10. CASE c \notin members[ch]
  <2>1. sendQueue'[c] = <<>> /\ link'[c] = "raised"
    BY <1>0, <1>5, <1>10 DEF HandlePart, ConnTypes
  <2>2. \E u \in Views : Path(View(c), wire[c], u)
    BY ComingTypes, PathSplit DEF AllTracked, Tracked, Coming
  <2>3. Coming(c)' = wire[c]
    BY <1>2, <2>1, ComingTypes, ConcatEmptySeq DEF Coming
  <2>4. Tracked(c)'
    BY <1>2, <2>1, <2>2, <2>3 DEF Tracked
  <2> QED
    BY <1>8, <2>4 DEF AllTracked
<1> QED
  BY <1>9, <1>10

(* A client that goes, by QUIT or with its handler. *)
LEMMA GoneTracked ==
  ASSUME IInv, IInv', AllEnds, AllTracked, NEW c \in Clients, Quits(c),
         link[c] # "open", link'[c] # "open", sendQueue'[c] = sendQueue[c],
         wire' = wire, \A d \in Clients : View(d)' = View(d),
         \A d \in Clients \ {c} : /\ link'[d] = link[d]
                                  /\ nick'[d] = nick[d]
                                  /\ joined'[d] = joined[d]
  PROVE  AllTracked'
<1>0. ServerTypes
  BY TypeParts DEF IInv
<1> DEFINE m == [type |-> "quit", who |-> nick[c]]
<1>1. sendQueue' = Told(c, m)
  BY DEF Quits
<1>2. m.type = "quit" /\ m.who = nick[c] /\ (nick[c] \in Nicks => m \in Message)
  BY MessageTypes
<1> HIDE DEF m
<1>3. ASSUME NEW ch \in Channels
      PROVE  /\ nick[c] # NoNick \/ c \in members[ch] =>
                  /\ Present(ch)' = Present(ch) \ {nick[c]}
                  /\ Present(ch)' \ {nick[c]} = Present(ch)'
             /\ c \notin members[ch] => Present(ch)' = Present(ch)
  <2>1. members'[ch] = members[ch] \ {c}
    BY DEF Quits
  <2>2. \A e \in members'[ch] : nick'[e] = nick[e]
    BY <1>0, <2>1 DEF ServerTypes
  <2>3. Present(ch)' = {nick[e] : e \in members[ch] \ {c}}
    BY <2>1, <2>2 DEF Present
  <2>4. CASE c \notin members[ch]
    <3>1. Present(ch)' = Present(ch)
      BY <2>3, <2>4 DEF Present
    <3>2. ASSUME nick[c] # NoNick PROVE nick[c] \notin Present(ch)
      BY <1>0, <2>4, <3>2, NicksApart DEF Present, ServerTypes
    <3> QED
      BY <2>4, <3>1, <3>2
  <2>5. CASE c \in members[ch]
    <3>1. nick[c] # NoNick
      BY <2>5 DEF IInv, ServerAgrees
    <3>2. \A e \in members[ch] : nick[e] = nick[c] => e = c
      BY <1>0, <3>1, NicksApart DEF ServerTypes
    <3> QED
      BY <2>3, <2>5, <3>2 DEF Present
  <2> QED
    BY <2>4, <2>5
<1>4. ASSUME NEW d \in Clients \ {c} PROVE Tracked(d)'
  <2>1. ASSUME link[d] = "open", Shared(c, d) = {} PROVE Truth(d)' = Truth(d)
    <3>1. \A ch \in Channels : ch \in joined[d] => c \notin members[ch]
      BY <1>0, <2>1, InChannels DEF Shared
    <3>2. \A ch \in Channels : ch \in joined[d] => Present(ch)' = Present(ch)
      BY <1>3, <3>1
    <3> QED
      BY <3>2 DEF Truth
  <2>2. ASSUME link[d] = "open", Shared(c, d) # {}
        PROVE  /\ m \in Message
               /\ Reads(Truth(d), m, Truth(d)')
               /\ Reads(Truth(d)', m, Truth(d)')
    <3>1. nick[c] \in Nicks
      BY <1>0, <2>2, InChannels DEF Shared, ServerTypes
    <3>2. nick[c] # NoNick
      BY <3>1, NickFacts
    <3>3. /\ Truth(d)'.real = Truth(d).real
          /\ Truth(d)'.channels = Truth(d).channels
      BY DEF Truth
    <3>4. \A ch \in Channels :
            /\ Truth(d)'.users[ch] = Truth(d).users[ch] \ {nick[c]}
            /\ Truth(d)'.users[ch] = Truth(d)'.users[ch] \ {nick[c]}
      BY <1>3, <3>2 DEF Truth
    <3> QED
      BY <1>2, <3>1, <3>3, <3>4 DEF Reads, Knows, RealAfter, ChannelsAfter, UsersAfter
  <2> QED
    BY <1>1, <2>1, <2>2, ToldTracked DEF AllTracked
<1>5. Tracked(c)'
  <2>1. Coming(c)' = Coming(c)
    BY DEF Coming
  <2> QED
    BY <2>1, StayTracked DEF AllTracked
<1> QED
  BY <1>4, <1>5 DEF AllTracked

LEMMA QuitTracked ==
  ASSUME IInv, IInv', AllEnds, AllTracked, NEW c \in Clients,
         HandleQuit(c) \/ Finish(c)
  PROVE  AllTracked'
<1>0. ConnTypes /\ ServerTypes
  BY TypeParts DEF IInv
<1>1. Quits(c) /\ wire' = wire /\ UNCHANGED bot
  BY DEF HandleQuit, Finish
<1>2. \A d \in Clients : View(d)' = View(d)
  BY <1>1 DEF View, bot, tracker
<1>3. link[c] # "open" /\ link'[c] # "open"
  BY <1>0 DEF HandleQuit, Finish, ConnTypes
<1>4. \A d \in Clients \ {c} : /\ link'[d] = link[d]
                               /\ nick'[d] = nick[d]
                               /\ joined'[d] = joined[d]
  BY <1>0 DEF HandleQuit, Finish, ConnTypes, ServerTypes
<1> QED
  BY <1>1, <1>2, <1>3, <1>4, QuitsFacts, GoneTracked

LEMMA FlushTracked ==
  ASSUME IInv, AllTracked, NEW c \in Clients, Flush(c)
  PROVE  AllTracked'
<1>0. ConnTypes
  BY TypeParts DEF IInv
<1> SUFFICES ASSUME NEW d \in Clients PROVE Tracked(d)'
  BY DEF AllTracked
<1>1. View(d)' = View(d) /\ Truth(d)' = Truth(d) /\ link' = link
  BY DEF Flush, server, bot, tracker, View, Truth, Present
<1>2. Coming(d)' = Coming(d)
  <2>1. CASE d = c
    <3>1. wire'[c] = Coming(c) /\ sendQueue'[c] = <<>>
      BY <1>0 DEF Flush, Coming, ConnTypes
    <3> QED
      BY <2>1, <3>1, ComingTypes, ConcatEmptySeq DEF Coming
  <2>2. CASE d # c
    BY <1>0, <2>2 DEF Flush, Coming, ConnTypes
  <2> QED
    BY <2>1, <2>2
<1> QED
  BY <1>1, <1>2, StayTracked DEF AllTracked

(* Nothing is under way to a bot whose connection has just begun or ended. *)
LEMMA CleanTracked ==
  ASSUME IInv, IInv', AllTracked, NEW c \in Clients, UNCHANGED server,
         \A d \in Clients \ {c} : Still(d) /\ sendQueue'[d] = sendQueue[d],
         Coming(c)' = <<>>, link'[c] = "open" => View(c)' = Truth(c)'
  PROVE  AllTracked'
<1>1. ASSUME NEW d \in Clients \ {c} PROVE Tracked(d)'
  <2>1. Truth(d)' = Truth(d)
    BY DEF server, Truth, Present
  <2> QED
    BY <2>1, StillTracked DEF AllTracked
<1>2. Tracked(c)'
  <2>1. View(c)' \in Views
    BY NextViewTypes DEF Typed
  <2>2. Path(View(c)', Coming(c)', View(c)')
    BY <2>1, PathNone
  <2> QED
    BY <2>1, <2>2 DEF Tracked
<1> QED
  BY <1>1, <1>2 DEF AllTracked

LEMMA ConnectTracked ==
  ASSUME IInv, IInv', AllEnds, AllTracked, NEW c \in Clients, Connect(c)
  PROVE  AllTracked'
<1>0. ConnTypes /\ Good(c) /\ Ends(c)
  BY TypeParts DEF IInv, AllGood, AllEnds
<1>1. Coming(c)' = <<>>
  <2>1. wire'[c] = <<>> /\ sendQueue'[c] = <<>>
    BY <1>0 DEF Connect, Good
  <2> QED
    BY <2>1, ConcatEmptySeq DEF Coming
<1>2. View(c)' = Truth(c)'
  <2>1. /\ View(c)'.real = 0
        /\ View(c)'.channels = {}
        /\ \A ch \in Channels : View(c)'.users[ch] = {}
    BY <1>0 DEF Connect, View, Ends, tracker, ConnTypes
  <2>2. /\ Truth(c)'.real = 0
        /\ Truth(c)'.channels = {}
        /\ \A ch \in Channels : Truth(c)'.users[ch] = {}
    BY <1>0 DEF Connect, Truth, Good, Ends, server
  <2>3. View(c)' \in Views /\ Truth(c)' \in Views
    BY NextViewTypes DEF Typed
  <2>4. /\ View(c)'.real = Truth(c)'.real
        /\ View(c)'.channels = Truth(c)'.channels
        /\ \A ch \in Channels : View(c)'.users[ch] = Truth(c)'.users[ch]
    BY <2>1, <2>2
  <2> QED
    BY <2>3, <2>4, SameView
<1>3. \A d \in Clients \ {c} : Still(d) /\ sendQueue'[d] = sendQueue[d]
  BY <1>0 DEF Connect, Still, View, tracker, ConnTypes
<1> QED
  BY <1>1, <1>2, <1>3, CleanTracked DEF Connect

LEMMA EndTracked ==
  ASSUME IInv, IInv', AllTracked, NEW c \in Clients, Leave(c) \/ SeeEnd(c)
  PROVE  AllTracked'
<1>0. ConnTypes /\ TrackerTypes /\ Good(c)
  BY TypeParts DEF IInv, AllGood
<1>1. Offline(c) /\ UNCHANGED server
  BY DEF Leave, SeeEnd
<1>2. link'[c] # "open"
  BY <1>0 DEF Leave, SeeEnd, ConnTypes
<1>3. Coming(c)' = <<>>
  <2>1. wire'[c] = <<>> /\ sendQueue'[c] = <<>>
    BY <1>0 DEF Leave, SeeEnd, Offline, Good, ConnTypes
  <2> QED
    BY <2>1, ConcatEmptySeq DEF Coming
<1>4. \A d \in Clients \ {c} : Still(d) /\ sendQueue'[d] = sendQueue[d]
  BY <1>0 DEF Leave, SeeEnd, Offline, Still, View, ConnTypes, TrackerTypes
<1> QED
  BY <1>1, <1>2, <1>3, <1>4, CleanTracked

(* The handlers do what Reads says. *)
LEMMA HandleReads ==
  ASSUME IInv, NEW c \in Clients, NEW m \in Message, Known(c, m), Handle(c, m)
  PROVE  /\ Reads(View(c), m, View(c)')
         /\ \A d \in Clients \ {c} : View(d)' = View(d)
<1>0. ConnTypes /\ TrackerTypes
  BY TypeParts DEF IInv
<1>1. /\ Knows(View(c), m)
      /\ View(c).real = realNick[c] /\ View(c).channels = channels[c]
      /\ View(c)'.real = realNick'[c] /\ View(c)'.channels = channels'[c]
      /\ \A ch \in Channels : /\ View(c).users[ch] = users[c][ch]
                              /\ View(c)'.users[ch] = users'[c][ch]
  BY DEF Known, Knows, View
<1>2. \A d \in Clients \ {c} : View(d)' = View(d)
  <2>1. \A d \in Clients \ {c} : /\ realNick'[d] = realNick[d]
                                 /\ channels'[d] = channels[d]
                                 /\ users'[d] = users[d]
    BY <1>0 DEF Handle, OnNicknameInUse, OnWelcome, OnJoin, OnNamreply, OnPart, OnNick,
                OnQuit, tracker, ConnTypes, TrackerTypes
  <2> QED
    BY <2>1 DEF View
<1>3. CASE OnNicknameInUse(c, m)
  <2>2. /\ m.type = "inuse"
        /\ realNick'[c] = realNick[c]
        /\ channels'[c] = channels[c]
        /\ users'[c] = users[c]
    BY <1>0, <1>3 DEF OnNicknameInUse, ConnTypes, TrackerTypes, tracker
  <2> QED
    BY <1>1, <1>2, <2>2 DEF Reads, RealAfter, ChannelsAfter, UsersAfter
<1>4. CASE OnWelcome(c, m)
  <2>2. /\ m.type = "welcome"
        /\ realNick'[c] = m.who
        /\ channels'[c] = channels[c]
        /\ users'[c] = users[c]
    BY <1>0, <1>4 DEF OnWelcome, ConnTypes, TrackerTypes, tracker
  <2> QED
    BY <1>1, <1>2, <2>2 DEF Reads, RealAfter, ChannelsAfter, UsersAfter
<1>5. CASE OnJoin(c, m)
  <2>1. m.ch \in Channels
    BY <1>5, MessageFields DEF OnJoin
  <2>2. /\ m.type = "join"
        /\ realNick'[c] = realNick[c]
        /\ channels'[c] = channels[c] \cup {m.ch}
        /\ users'[c][m.ch] = IF m.who = realNick[c] THEN {m.who}
                              ELSE users[c][m.ch] \cup {m.who}
        /\ \A ch \in Channels : ch # m.ch => users'[c][ch] = users[c][ch]
    BY <1>0, <1>5, <2>1 DEF OnJoin, ConnTypes, TrackerTypes, tracker
  <2> QED
    BY <1>1, <1>2, <2>2 DEF Reads, RealAfter, ChannelsAfter, UsersAfter
<1>6. CASE OnNamreply(c, m)
  <2>1. m.ch \in Channels
    BY <1>6, MessageFields DEF OnNamreply
  <2>2. /\ m.type = "names"
        /\ realNick'[c] = realNick[c]
        /\ channels'[c] = channels[c]
        /\ users'[c][m.ch] = users[c][m.ch] \cup m.who
        /\ \A ch \in Channels : ch # m.ch => users'[c][ch] = users[c][ch]
    BY <1>0, <1>6, <2>1 DEF OnNamreply, ConnTypes, TrackerTypes, tracker
  <2> QED
    BY <1>1, <1>2, <2>2 DEF Reads, RealAfter, ChannelsAfter, UsersAfter
<1>7. CASE OnPart(c, m)
  <2>1. m.ch \in Channels
    BY <1>7, MessageFields DEF OnPart
  <2>2. /\ m.type = "part"
        /\ realNick'[c] = realNick[c]
        /\ channels'[c] = IF m.who = realNick[c] THEN channels[c] \ {m.ch}
                         ELSE channels[c]
        /\ users'[c][m.ch] = IF m.who = realNick[c] THEN {}
                              ELSE users[c][m.ch] \ {m.who}
        /\ \A ch \in Channels : ch # m.ch => users'[c][ch] = users[c][ch]
    <3>1. CASE m.who = realNick[c]
      BY <1>0, <1>7, <2>1, <3>1 DEF OnPart, ConnTypes, TrackerTypes
    <3>2. CASE m.who # realNick[c]
      BY <1>0, <1>7, <2>1, <3>2 DEF OnPart, ConnTypes, TrackerTypes
    <3> QED
      BY <3>1, <3>2
  <2> QED
    BY <1>1, <1>2, <2>2 DEF Reads, RealAfter, ChannelsAfter, UsersAfter
<1>8. CASE OnNick(c, m)
  <2>2. /\ m.type = "nick"
        /\ realNick'[c] = IF realNick[c] = m.who THEN m.to ELSE realNick[c]
        /\ channels'[c] = channels[c]
        /\ \A ch \in Channels : users'[c][ch] = Renamed(users[c][ch], m)
    BY <1>0, <1>8 DEF OnNick, ConnTypes, TrackerTypes, tracker
  <2> QED
    BY <1>1, <1>2, <2>2 DEF Reads, RealAfter, ChannelsAfter, UsersAfter
<1>9. CASE OnQuit(c, m)
  <2>2. /\ m.type = "quit"
        /\ realNick'[c] = realNick[c]
        /\ channels'[c] = channels[c]
        /\ \A ch \in Channels : users'[c][ch] = users[c][ch] \ {m.who}
    BY <1>0, <1>9 DEF OnQuit, ConnTypes, TrackerTypes, tracker
  <2> QED
    BY <1>1, <1>2, <2>2 DEF Reads, RealAfter, ChannelsAfter, UsersAfter
<1> QED
  BY <1>2, <1>3, <1>4, <1>5, <1>6, <1>7, <1>8, <1>9 DEF Handle

LEMMA ReadsOnce ==
  ASSUME NEW m, NEW s, NEW t \in Views, NEW u \in Views,
         Reads(s, m, t), Reads(s, m, u)
  PROVE  t = u
<1>1. t.real = u.real /\ t.channels = u.channels
  BY DEF Reads
<1>2. \A ch \in Channels : t.users[ch] = u.users[ch]
  BY DEF Reads
<1> QED
  BY <1>1, <1>2, SameView

(* The first message of what is under way is one that the bot can read. *)
LEMMA FirstReads ==
  ASSUME IInv, NEW c \in Clients, wire[c] # <<>>, NEW t,
         Path(View(c), Coming(c), t)
  PROVE  \E u \in Views : /\ Reads(View(c), Head(wire[c]), u)
                          /\ Path(u, Tail(wire[c]) \o sendQueue[c], t)
<1> DEFINE m == Head(wire[c])
           q == Tail(wire[c])
<1>1. m \in Message /\ q \in Seq(Message) /\ wire[c] = <<m>> \o q
  BY ComingTypes
<1> HIDE DEF m, q
<1>2. /\ <<m>> \in Seq(Message)
      /\ q \o sendQueue[c] \in Seq(Message)
      /\ Coming(c) = <<m>> \o (q \o sendQueue[c])
  <2>1. <<m>> \in Seq(Message) /\ sendQueue[c] \in Seq(Message)
    BY <1>1, ComingTypes
  <2>2. (<<m>> \o q) \o sendQueue[c] = <<m>> \o (q \o sendQueue[c])
    BY <1>1, <2>1, ThreeQueues
  <2> QED
    BY <1>1, <2>1, <2>2, ThreeQueues DEF Coming
<1>3. PICK u \in Views : Path(View(c), <<m>>, u) /\ Path(u, q \o sendQueue[c], t)
  BY <1>2, PathSplit
<1>4. Reads(View(c), m, u)
  BY <1>3, OnePath
<1> QED
  BY <1>3, <1>4 DEF m, q

LEMMA DeliverTracked ==
  ASSUME IInv, IInv', AllTracked, NEW c \in Clients, Deliver(c)
  PROVE  AllTracked'
<1>0. ConnTypes
  BY TypeParts DEF IInv
<1> DEFINE m == Head(wire[c])
<1>1. m \in Message /\ wire[c] # <<>>
  BY <1>0 DEF Deliver, ConnTypes
<1>2. /\ Reads(View(c), m, View(c)')
      /\ \A d \in Clients \ {c} : View(d)' = View(d)
  BY <1>1, HandleReads DEF Deliver
<1>3. ASSUME NEW d \in Clients PROVE Truth(d)' = Truth(d) /\ link'[d] = link[d]
  BY DEF Deliver, server, Truth, Present
<1>4. ASSUME NEW d \in Clients \ {c} PROVE Tracked(d)'
  <2>1. Still(d) /\ sendQueue'[d] = sendQueue[d]
    BY <1>0, <1>2 DEF Still, Deliver, ConnTypes
  <2> QED
    BY <1>3, <2>1, StillTracked DEF AllTracked
<1>5. Tracked(c)'
  <2>1. PICK t \in Views : /\ Path(View(c), Coming(c), t)
                           /\ link[c] = "open" => t = Truth(c)
    BY DEF AllTracked, Tracked
  <2>2. PICK u \in Views : /\ Reads(View(c), m, u)
                           /\ Path(u, Tail(wire[c]) \o sendQueue[c], t)
    BY <1>1, <2>1, FirstReads
  <2>3. View(c)' = u
    <3>1. View(c)' \in Views
      BY NextViewTypes DEF Typed
    <3> HIDE DEF m
    <3> QED
      BY <1>2, <2>2, <3>1, ReadsOnce
  <2>4. Coming(c)' = Tail(wire[c]) \o sendQueue[c]
    BY <1>0 DEF Deliver, Coming, ConnTypes
  <2>5. Path(View(c)', Coming(c)', t)
    BY <2>2, <2>3, <2>4
  <2> QED
    BY <1>3, <2>1, <2>5 DEF Tracked
<1> QED
  BY <1>4, <1>5 DEF AllTracked

(* A handler meets only channels the bot has. *)
LEMMA NoneFails ==
  ASSUME IInv, AllTracked, NEW c \in Clients
  PROVE  ~DeliverFails(c)
<1> SUFFICES ASSUME DeliverFails(c) PROVE FALSE
  OBVIOUS
<1>1. wire[c] # <<>> /\ ~Known(c, Head(wire[c]))
  BY DEF DeliverFails
<1>2. \E u \in Views : Reads(View(c), Head(wire[c]), u)
  BY <1>1, FirstReads DEF AllTracked, Tracked
<1>3. Knows(View(c), Head(wire[c]))
  BY <1>2 DEF Reads
<1> QED
  BY <1>1, <1>3 DEF Knows, Known, View

-------------------------------------------------------------------------------
(* The channels of handler and bot, step by step. *)
LEMMA EndsStep ==
  ASSUME IInv, AllEnds, [Next]_vars
  PROVE  AllEnds'
<1>0. ConnTypes /\ ServerTypes /\ TrackerTypes
  BY TypeParts DEF IInv
<1>1. CASE UNCHANGED vars
  BY <1>1 DEF AllEnds, Ends, vars, server, bot, tracker
<1> SUFFICES ASSUME NEW c \in Clients, Step(c), NEW d \in Clients PROVE Ends(d)'
  BY <1>1 DEF Next, AllEnds
<1>2. Ends(d) /\ Good(d)
  BY DEF AllEnds, IInv, AllGood
<1>3. CASE HandleNick(c) \/ \E n \in Nicks : Rename(c, n)
  <2>1. UNCHANGED <<link, channels, users, members, joined>>
    BY <1>3 DEF HandleNick, Rename, NickCommand, NickInUse, AlreadyMine, Register,
                ChangeNick, server, tracker
  <2> QED
    BY <1>2, <2>1 DEF Ends
<1>4. ASSUME NEW ch \in Channels, HandleJoin(c, ch) PROVE Ends(d)'
  <2>1. UNCHANGED <<link, channels, users>> /\ link[c] = "open"
    BY <1>4 DEF HandleJoin, bot, tracker
  <2>2. /\ members' = [members EXCEPT ![ch] = @ \cup {c}]
        /\ joined' = [joined EXCEPT ![c] = @ \cup {ch}]
    BY <1>4 DEF HandleJoin
  <2>3. link[d] \in {"off", "cut"} => joined'[d] = {}
    BY <1>0, <1>2, <2>1, <2>2 DEF Ends, ServerTypes
  <2>4. link[d] = "open" => \A h \in joined'[d] : d \in members'[h]
    BY <1>0, <1>2, <2>2 DEF Ends, ServerTypes
  <2> QED
    BY <1>2, <2>1, <2>3, <2>4 DEF Ends
<1>5. ASSUME NEW ch \in Channels, HandlePart(c, ch) PROVE Ends(d)'
  <2>1. UNCHANGED <<channels, users>> /\ link[c] = "open"
    BY <1>5 DEF HandlePart, bot, tracker
  <2>2. members' = [members EXCEPT ![ch] = @ \ {c}]
    BY <1>5 DEF HandlePart
  <2>3. CASE c \in members[ch]
    <3>1. link' = link /\ joined' = [joined EXCEPT ![c] = @ \ {ch}]
      BY <1>5, <2>3 DEF HandlePart
    <3>2. link[d] = "open" => \A h \in joined'[d] : d \in members'[h]
      BY <1>0, <1>2, <2>2, <3>1 DEF Ends, ServerTypes
    <3>3. link[d] \in {"off", "cut"} => joined'[d] = {}
      BY <1>0, <1>2, <3>1 DEF Ends, ServerTypes
    <3> QED
      BY <1>2, <2>1, <3>1, <3>2, <3>3 DEF Ends
  <2>4. CASE c \notin members[ch]
    <3>1. link' = [link EXCEPT ![c] = "raised"] /\ joined' = joined /\ members' = members
      BY <1>0, <1>5, <2>2, <2>4 DEF HandlePart, ServerTypes
    <3> QED
      BY <1>0, <1>2, <2>1, <3>1 DEF Ends, ConnTypes
  <2> QED
    BY <2>3, <2>4
<1>6. CASE HandleQuit(c) \/ Finish(c)
  <2>1. Quits(c) /\ UNCHANGED <<channels, users>>
    BY <1>6 DEF HandleQuit, Finish, bot, tracker
  <2>2. \A h \in Channels : d # c => (d \in members'[h] <=> d \in members[h])
    BY <2>1, QuitsFacts
  <2>3. CASE d # c
    <3>1. link'[d] = link[d] /\ joined'[d] = joined[d]
      BY <1>0, <1>6, <2>3 DEF HandleQuit, Finish, ConnTypes, ServerTypes
    <3> QED
      BY <1>0, <1>2, <2>1, <2>2, <2>3, <3>1 DEF Ends, ServerTypes
  <2>4. CASE d = c /\ HandleQuit(c)
    <3>1. link[d] = "quit" /\ link'[d] = "left"
      BY <1>0, <2>4 DEF HandleQuit, ConnTypes
    <3> QED
      BY <1>2, <2>1, <3>1 DEF Ends
  <2>5. CASE d = c /\ Finish(c)
    <3>1. /\ joined'[d] = {}
          /\ \/ link[d] = "left" /\ link'[d] = "off"
             \/ link[d] = "raised" /\ link'[d] = "cut"
      BY <1>0, <2>5 DEF Finish, ConnTypes, ServerTypes
    <3> QED
      BY <1>2, <2>1, <3>1 DEF Ends
  <2> QED
    BY <1>6, <2>3, <2>4, <2>5
<1>7. CASE Flush(c) \/ Connect(c)
  <2>1. UNCHANGED <<channels, users, members, joined>>
    BY <1>7 DEF Flush, Connect, server, bot, tracker
  <2>2. link'[d] = link[d] \/ (link[d] = "off" /\ link'[d] = "open")
    BY <1>0, <1>7 DEF Flush, Connect, ConnTypes
  <2> QED
    BY <1>2, <2>1, <2>2 DEF Ends
<1>8. CASE Leave(c) \/ SeeEnd(c) \/ DeliverFails(c)
  <2>1. Offline(c) /\ UNCHANGED <<members, joined>>
    BY <1>8 DEF Leave, SeeEnd, DeliverFails, server
  <2>2. CASE d # c
    <3>1. link'[d] = link[d] /\ channels'[d] = channels[d] /\ users'[d] = users[d]
      BY <1>0, <1>8, <2>1, <2>2
         DEF Leave, SeeEnd, DeliverFails, Offline, ConnTypes, TrackerTypes
    <3> QED
      BY <1>2, <2>1, <3>1 DEF Ends
  <2>3. CASE d = c
    <3>1. channels'[d] = {} /\ \A ch \in Channels : users'[d][ch] = {}
      BY <1>0, <2>1, <2>3 DEF Offline, TrackerTypes
    <3>2. link'[d] # "open" /\ link'[d] # "cut"
          /\ (link'[d] = "off" => link[d] = "cut")
      BY <1>0, <1>8, <2>3 DEF Leave, SeeEnd, DeliverFails, ConnTypes
    <3> QED
      BY <1>2, <2>1, <3>1, <3>2 DEF Ends
  <2> QED
    BY <2>2, <2>3
<1>9. CASE Deliver(c)
  <2>1. UNCHANGED <<link, members, joined>> /\ link[c] \notin {"off", "quit", "left"}
    BY <1>9 DEF Deliver, server, IInv, AllGood, Good
  <2>2. d # c => channels'[d] = channels[d] /\ users'[d] = users[d]
    BY <1>0, <1>9
       DEF Deliver, Handle, OnNicknameInUse, OnWelcome, OnJoin, OnNamreply, OnPart,
           OnNick, OnQuit, tracker, TrackerTypes
  <2> QED
    BY <1>2, <2>1, <2>2 DEF Ends
<1> QED
  BY <1>3, <1>4, <1>5, <1>6, <1>7, <1>8, <1>9 DEF Step

LEMMA TrackedStep ==
  ASSUME TInv, IInv', [Next]_vars, ~hasty'
  PROVE  failed' = {} /\ AllTracked'
<1>1. ~hasty
  <2>1. hasty => hasty'
    <3> SUFFICES ASSUME hasty, ~hasty' PROVE FALSE
      OBVIOUS
    <3>1. ASSUME NEW c \in Clients, NEW n \in Nicks, NickCommand(c, n)
          PROVE  hasty' = hasty \/ ChangeNick(c, n)
      BY <3>1 DEF NickCommand, NickInUse, AlreadyMine, Register
    <3>2. ASSUME NEW c \in Clients, HandleNick(c)
          PROVE  \E n \in Nicks : NickCommand(c, n)
      BY <3>2, TypeParts DEF HandleNick, TInv, IInv, ConnTypes
    <3>3. ASSUME NEW c \in Clients, NEW n \in Nicks, Rename(c, n)
          PROVE  NickCommand(c, n)
      BY <3>3 DEF Rename
    <3>4. \/ hasty' = hasty
          \/ \E c \in Clients : HandleNick(c) \/ \E n \in Nicks : Rename(c, n)
      BY DEF Next, Step, HandleJoin, HandlePart, HandleQuit, Finish, Flush, Connect,
             Leave, SeeEnd, Deliver, DeliverFails, vars
    <3>5. PICK c \in Clients, n \in Nicks : ChangeNick(c, n)
      BY <3>1, <3>2, <3>3, <3>4
    <3> QED
      BY <3>5 DEF ChangeNick
  <2> QED
    BY <2>1
<1>2. IInv /\ AllEnds /\ failed = {} /\ AllTracked
  BY <1>1 DEF TInv
<1>3. CASE UNCHANGED vars
  <2>1. \A c \in Clients : View(c)' = View(c) /\ Coming(c)' = Coming(c)
                           /\ Truth(c)' = Truth(c) /\ link' = link
    BY <1>3 DEF vars, server, bot, tracker, View, Coming, Truth, Present
  <2>2. \A c \in Clients : Tracked(c)'
    BY <1>2, <2>1, StayTracked DEF AllTracked
  <2> QED
    BY <1>2, <1>3, <2>2 DEF AllTracked, vars, bot
<1>4. ASSUME NEW c \in Clients, Step(c)
      PROVE  failed' = {} /\ AllTracked'
  <2>1. ~DeliverFails(c)
    BY <1>2, NoneFails
  <2>2. failed' = failed
    BY <1>4, <2>1
       DEF Step, HandleNick, Rename, NickCommand, HandleJoin, HandlePart, HandleQuit,
           Finish, Flush, Connect, Leave, SeeEnd, Deliver, bot
  <2>3. ASSUME NEW ch \in Channels, HandleJoin(c, ch) \/ HandlePart(c, ch)
        PROVE  AllTracked'
    BY <1>2, <2>3, JoinTracked, PartTracked
  <2>4. CASE HandleNick(c) \/ \E n \in Nicks : Rename(c, n)
    BY <1>2, <2>2, <2>4, NickTracked
  <2>5. CASE HandleQuit(c) \/ Finish(c)
    BY <1>2, <2>2, <2>5, QuitTracked
  <2>6. CASE Flush(c)
    BY <1>2, <2>2, <2>6, FlushTracked
  <2>7. CASE Connect(c)
    BY <1>2, <2>2, <2>7, ConnectTracked
  <2>8. CASE Leave(c) \/ SeeEnd(c)
    BY <1>2, <2>2, <2>8, EndTracked
  <2>9. CASE Deliver(c)
    BY <1>2, <2>2, <2>9, DeliverTracked
  <2>10. AllTracked'
    BY <1>4, <2>1, <2>3, <2>4, <2>5, <2>6, <2>7, <2>8, <2>9 DEF Step
  <2> QED
    BY <1>2, <2>2, <2>10
<1> QED
  BY <1>3, <1>4 DEF Next

LEMMA InitTInv == Init => TInv
<1> SUFFICES ASSUME Init PROVE TInv
  OBVIOUS
<1>1. IInv
  BY InitIInv
<1>2. AllEnds /\ failed = {}
  BY DEF Init, AllEnds, Ends
<1>3. ASSUME NEW c \in Clients PROVE Tracked(c)
  <2>1. wire[c] = <<>> /\ sendQueue[c] = <<>> /\ link[c] = "off"
    BY DEF Init
  <2>2. Coming(c) = <<>>
    BY <2>1, ConcatEmptySeq DEF Coming
  <2>3. View(c) \in Views
    BY <1>1, ViewTypes DEF Typed
  <2> QED
    BY <2>1, <2>2, <2>3, PathNone DEF Tracked
<1> QED
  BY <1>1, <1>2, <1>3 DEF TInv, AllTracked

LEMMA NextTInv == TInv /\ [Next]_vars => TInv'
<1> SUFFICES ASSUME TInv, [Next]_vars PROVE TInv'
  OBVIOUS
<1>1. IInv'
  BY NextIInv DEF TInv
<1>2. AllEnds'
  BY EndsStep DEF TInv
<1>3. ASSUME ~hasty' PROVE failed' = {} /\ AllTracked'
  BY <1>1, <1>3, TrackedStep
<1> QED
  BY <1>1, <1>2, <1>3 DEF TInv

(* TInv holds of every reachable state. *)
THEOREM PathInvariance == Spec => []TInv
BY InitTInv, NextTInv, PTL DEF Spec

(* Whatever joins, parts, quits, cut connections and changes of nickname the *)
(* messages tell of, and however late they are read: a bot that has read all *)
(* of them knows its nickname, its channels and who is there, for any number *)
(* of bots and channels (bot.py:187-263, server.py:258-300, 363-434).        *)
THEOREM TrackersExactAlways == Spec => []TrackersExact
<1>1. ASSUME TInv, ~hasty, NEW c \in Clients, link[c] = "open", welcomed[c],
             Unread(c) = 0
      PROVE  /\ realNick[c] = nick[c]
             /\ channels[c] = joined[c]
             /\ \A ch \in joined[c] : users[c][ch] = {nick[d] : d \in members[ch]}
  <2>0. IInv /\ AllTracked /\ Good(c) /\ ServerTypes
    BY <1>1, TypeParts DEF TInv, IInv, AllGood
  <2>1. Coming(c) = <<>>
    <3>1. \A q \in Seq(Message) : Len(q) \in Nat /\ (Len(q) = 0 => q = <<>>)
      OBVIOUS
    <3>2. Len(sendQueue[c]) = 0 /\ Len(wire[c]) = 0
      <4>1. Len(sendQueue[c]) \in Nat /\ Len(wire[c]) \in Nat
        BY <2>0, <3>1, ComingTypes
      <4>2. Len(sendQueue[c]) + Len(wire[c]) = 0
        BY <1>1 DEF Unread
      <4>3. \A a, b \in Nat : a + b = 0 => a = 0 /\ b = 0
        OBVIOUS
      <4> QED
        BY <4>1, <4>2, <4>3
    <3> QED
      BY <2>0, <3>1, <3>2, ComingTypes, ConcatEmptySeq DEF Coming
  <2>2. View(c) = Truth(c)
    BY <1>1, <2>0, <2>1, NonePath DEF AllTracked, Tracked
  <2>3. nick[c] # NoNick
    BY <1>1, <2>0 DEF Good
  <2>4. /\ View(c).real = realNick[c] /\ View(c).channels = channels[c]
        /\ \A ch \in Channels : View(c).users[ch] = users[c][ch]
    BY DEF View
  <2>5. /\ Truth(c).real = nick[c] /\ Truth(c).channels = joined[c]
        /\ \A ch \in Channels :
             ch \in joined[c] => Truth(c).users[ch] = {nick[d] : d \in members[ch]}
    BY <2>3 DEF Truth, Present
  <2> QED
    BY <2>0, <2>2, <2>4, <2>5 DEF ServerTypes
<1>2. TInv => TrackersExact
  BY <1>1 DEF TrackersExact
<1> QED
  BY <1>2, PathInvariance, PTL

(* No handler of a bot meets a channel that the bot does not have, so that   *)
(* no KeyError ends its thread (bot.py:187-257).                             *)
THEOREM NoTrackerFailsAlways == Spec => []NoTrackerFails
<1>1. TInv => NoTrackerFails
  BY DEF TInv, NoTrackerFails
<1> QED
  BY <1>1, PathInvariance, PTL
===============================================================================
