---------------------------- MODULE BridgeProofs ----------------------------
(***************************************************************************)
(* Proofs about the bridge, for any number of late answers, restarts and   *)
(* slices: a call that waits is answered with its own answer, and the      *)
(* driver services an interrupt only while DIO1 is high.                   *)
(***************************************************************************)
EXTENDS Bridge, TLAPS

----------------------------------------------------------------------------
(* The operators.                                                          *)

\* Where calls are made, and which of them say HELLO or ask for the pins.
LEMMA TheCalls ==
    /\ Calls = {"hello", "reset", "config", "level", "process", "flags", "result",
                "clear", "tx", "txlevel", "txclear", "listen"}
    /\ \A at \in Calls : /\ Command[at] \in {"HELLO", "RESET", "SPI", "PINS"}
                         /\ Command[at] = "HELLO" <=> at = "hello"
                         /\ Command[at] = "PINS" <=> at \in {"level", "txlevel"}
    /\ Checked = Calls \ {"hello", "flags"}
    /\ Waits \cap Calls = {}
<1>1. Calls = {"hello", "reset", "config", "level", "process", "flags", "result",
               "clear", "tx", "txlevel", "txclear", "listen"}
  BY DEF Calls, Command
<1>2. ASSUME NEW at \in Calls
      PROVE  /\ Command[at] \in {"HELLO", "RESET", "SPI", "PINS"}
             /\ Command[at] = "HELLO" <=> at = "hello"
             /\ Command[at] = "PINS" <=> at \in {"level", "txlevel"}
  BY <1>1 DEF Command
<1> QED BY <1>1, <1>2 DEF Checked, Waits

\* The driver services an interrupt only on a level it read as high.
LEMMA WhereNext ==
    ASSUME NEW at \in Calls, NEW ok \in BOOLEAN, NEW level \in BOOLEAN,
           NEW next \in after(at, ok, level)
    PROVE  /\ next \in Places
           /\ next = "process" => at = "level" /\ ok /\ level
<1> USE TheCalls DEF Places, Waits
<1>1. CASE at \in {"hello", "reset", "config"}
  <2>1. after(at, ok, level) =
          {IF ~ok THEN "dead" ELSE [hello |-> "reset", reset |-> "config", config |-> "wait"][at]}
    BY <1>1 DEF after
  <2>2. [hello |-> "reset", reset |-> "config", config |-> "wait"][at]
          \in {"reset", "config", "wait"}
    BY <1>1
  <2> QED BY <2>1, <2>2
<1>2. CASE at \in {"level", "process", "flags", "result", "tx"}
  BY <1>2 DEF after
<1>3. CASE at \in {"txlevel", "txclear", "clear", "listen"}
  BY <1>3 DEF after
<1> QED BY <1>1, <1>2, <1>3

\* Whatever is marked late stays what it was otherwise.
LEMMA Spoiled ==
    /\ \A s \in Seq(Requests) :
        /\ Spoil(s) \in Seq(Requests) /\ Len(Spoil(s)) = Len(s)
        /\ \A i \in 1..Len(s) : Spoil(s)[i].at = s[i].at /\ Spoil(s)[i].stale
    /\ \A s \in Seq(Items) :
        /\ SpoilReplies(s) \in Seq(Items) /\ Len(SpoilReplies(s)) = Len(s)
        /\ \A i \in 1..Len(s) :
            /\ SpoilReplies(s)[i].kind = s[i].kind
            /\ SpoilReplies(s)[i].cmd = s[i].cmd
            /\ SpoilReplies(s)[i].session = s[i].session
            /\ SpoilReplies(s)[i].level = s[i].level
            /\ SpoilReplies(s)[i].stale = (s[i].kind = "reply" \/ s[i].stale)
<1>1. ASSUME NEW s \in Seq(Requests)
      PROVE  /\ Spoil(s) \in Seq(Requests) /\ Len(Spoil(s)) = Len(s)
             /\ \A i \in 1..Len(s) : Spoil(s)[i].at = s[i].at /\ Spoil(s)[i].stale
  <2>1. /\ DOMAIN s = 1..Len(s) /\ Len(s) \in Nat
        /\ \A i \in 1..Len(s) : s[i] \in Requests
    OBVIOUS
  <2>2. \A i \in 1..Len(s) : /\ [s[i] EXCEPT !.stale = TRUE] \in Requests
                             /\ [s[i] EXCEPT !.stale = TRUE].at = s[i].at
                             /\ [s[i] EXCEPT !.stale = TRUE].stale
    BY <2>1 DEF Requests
  <2>3. \A i \in 1..Len(s) : Spoil(s)[i] = [s[i] EXCEPT !.stale = TRUE]
    BY <2>1 DEF Spoil
  <2>4. Spoil(s) \in [1..Len(s) -> Requests]
    BY <2>1, <2>2 DEF Spoil
  <2>5. Spoil(s) \in Seq(Requests) /\ Len(Spoil(s)) = Len(s)
    BY <2>1, <2>4
  <2> QED BY <2>2, <2>3, <2>5
<1>2. ASSUME NEW s \in Seq(Items)
      PROVE  /\ SpoilReplies(s) \in Seq(Items) /\ Len(SpoilReplies(s)) = Len(s)
             /\ \A i \in 1..Len(s) :
                 /\ SpoilReplies(s)[i].kind = s[i].kind
                 /\ SpoilReplies(s)[i].cmd = s[i].cmd
                 /\ SpoilReplies(s)[i].session = s[i].session
                 /\ SpoilReplies(s)[i].level = s[i].level
                 /\ SpoilReplies(s)[i].stale = (s[i].kind = "reply" \/ s[i].stale)
  <2>1. /\ DOMAIN s = 1..Len(s) /\ Len(s) \in Nat
        /\ \A i \in 1..Len(s) : s[i] \in Items
    OBVIOUS
  <2> DEFINE new(i) == IF s[i].kind = "reply" THEN [s[i] EXCEPT !.stale = TRUE] ELSE s[i]
  <2>2. \A i \in 1..Len(s) : new(i) \in Items
    BY <2>1 DEF Items
  <2>3. \A i \in 1..Len(s) :
          /\ new(i).kind = s[i].kind
          /\ new(i).cmd = s[i].cmd
          /\ new(i).session = s[i].session
          /\ new(i).level = s[i].level
          /\ new(i).stale = (s[i].kind = "reply" \/ s[i].stale)
    BY <2>1 DEF Items
  <2>4. SpoilReplies(s) = [i \in 1..Len(s) |-> new(i)]
    BY <2>1 DEF SpoilReplies
  <2> HIDE DEF new
  <2>5. SpoilReplies(s) \in [1..Len(s) -> Items] /\ \A i \in 1..Len(s) : SpoilReplies(s)[i] = new(i)
    BY <2>2, <2>4
  <2>6. SpoilReplies(s) \in Seq(Items) /\ Len(SpoilReplies(s)) = Len(s)
    BY <2>1, <2>5
  <2> QED BY <2>3, <2>5, <2>6
<1> QED BY <1>1, <1>2

\* The sequences the cable and the inbox go through.
LEMMA TailOf ==
    ASSUME NEW S, NEW s \in Seq(S), s # <<>>
    PROVE  /\ Head(s) = s[1] /\ Head(s) \in S
           /\ Tail(s) \in Seq(S) /\ Len(Tail(s)) = Len(s) - 1 /\ Len(s) \in Nat \ {0}
           /\ \A i \in 1..Len(Tail(s)) : Tail(s)[i] = s[i + 1]
OBVIOUS

LEMMA AppendTo ==
    ASSUME NEW S, NEW s \in Seq(S), NEW e \in S
    PROVE  /\ Append(s, e) \in Seq(S) /\ Len(Append(s, e)) = Len(s) + 1 /\ Len(s) \in Nat
           /\ \A i \in 1..Len(s) : Append(s, e)[i] = s[i]
           /\ Append(s, e)[Len(s) + 1] = e
OBVIOUS

----------------------------------------------------------------------------
(* Every step keeps the invariant.                                         *)

LEMMA Initially == BridgeInit => BridgeInv
<1> SUFFICES ASSUME BridgeInit PROVE BridgeInv
  OBVIOUS
<1>1. BridgeTypeOK
  <2>1. inbox \in Seq(Items) /\ uplink \in Seq(Requests)
    BY DEF BridgeInit
  <2>2. greeting \in SUBSET Greetings
    BY DEF BridgeInit
  <2>3. open \in BOOLEAN /\ doubted \in BOOLEAN /\ line \in BOOLEAN
    BY DEF BridgeInit
  <2>4. pc \in Places /\ call \in {"idle", "sent", "verify"} /\ met \in Nat /\ session \in Nat
    BY TheCalls DEF BridgeInit, Places
  <2> QED BY <2>1, <2>2, <2>3, <2>4 DEF BridgeTypeOK
<1>2. DOMAIN inbox = {} /\ DOMAIN uplink = {}
  BY DEF BridgeInit
<1> QED BY <1>1, <1>2 DEF BridgeInit, BridgeInv, CallsInOrder, SessionsAreKnown, FreshRequestIsLast,
         FreshGreetingIsLast, FreshReplyIsLast, NoticesHold, NothingLate, HintIsNoFact

\* The chip raises DIO1.
LEMMA ChipKeeps == BridgeInv /\ (chip_receives \/ chip_sent) => BridgeInv'
<1> SUFFICES ASSUME BridgeInv, chip_receives \/ chip_sent PROVE BridgeInv'
  OBVIOUS
<1>1. line' /\ UNCHANGED <<pc, call, met, inbox, uplink, open, greeting, session, doubted>>
  BY DEF chip_receives, chip_sent, host
<1>2. BridgeTypeOK'
  BY <1>1 DEF BridgeInv, BridgeTypeOK, chip_receives, chip_sent
<1>3. CallsInOrder' /\ SessionsAreKnown' /\ NoticesHold' /\ NothingLate' /\ HintIsNoFact'
  BY <1>1 DEF BridgeInv, CallsInOrder, SessionsAreKnown, NoticesHold, NothingLate, HintIsNoFact
<1>4. FreshRequestIsLast' /\ FreshGreetingIsLast' /\ FreshReplyIsLast'
  BY <1>1 DEF BridgeInv, FreshRequestIsLast, FreshGreetingIsLast, FreshReplyIsLast, Expected
<1> QED BY <1>2, <1>3, <1>4 DEF BridgeInv

\* drive takes up a command, or goes back to the wait.
LEMMA DrainKeeps == BridgeInv /\ drain => BridgeInv'
<1> SUFFICES ASSUME BridgeInv, drain PROVE BridgeInv'
  OBVIOUS
<1>1. call = "idle" /\ pc' \in {"wait", "tx"}
  BY TheCalls DEF BridgeInv, BridgeTypeOK, CallsInOrder, drain
<1>2. pc' \in Places
  BY <1>1, TheCalls DEF Places, Waits
<1> QED BY <1>1, <1>2 DEF BridgeInv, drain, device, board, BridgeTypeOK, CallsInOrder, SessionsAreKnown,
       FreshRequestIsLast, FreshGreetingIsLast, FreshReplyIsLast, NoticesHold,
       NothingLate, HintIsNoFact, Expected

\* The inbox gains an item that is no reply.
LEMMA NoticeKeeps ==
    ASSUME BridgeInv, NEW item \in Items, item.kind \in {"wake", "dio1"}, ~item.stale, item.session = 0,
           inbox' = Append(inbox, item),
           UNCHANGED <<pc, call, met, uplink, open, greeting, session, line, doubted>>
    PROVE  BridgeInv'
<1>1. /\ inbox' \in Seq(Items) /\ Len(inbox') = Len(inbox) + 1 /\ Len(inbox) \in Nat
      /\ \A i \in 1..Len(inbox) : inbox'[i] = inbox[i]
      /\ inbox'[Len(inbox) + 1] = item
  BY AppendTo DEF BridgeInv, BridgeTypeOK
<1>2. DOMAIN inbox = 1..Len(inbox) /\ DOMAIN inbox' = 1..Len(inbox')
  BY <1>1 DEF BridgeInv, BridgeTypeOK
<1>3. \A i \in DOMAIN inbox' : (i \in DOMAIN inbox /\ inbox'[i] = inbox[i]) \/ inbox'[i] = item
  BY <1>1, <1>2
<1>4. BridgeTypeOK' /\ CallsInOrder' /\ FreshRequestIsLast' /\ FreshGreetingIsLast' /\ HintIsNoFact'
  BY <1>1 DEF BridgeInv, BridgeTypeOK, CallsInOrder, FreshRequestIsLast, FreshGreetingIsLast,
              HintIsNoFact, Expected
<1>5. SessionsAreKnown' /\ NoticesHold' /\ NothingLate'
  BY <1>3 DEF BridgeInv, BridgeTypeOK, SessionsAreKnown, NoticesHold, NothingLate
<1>6. FreshReplyIsLast'
  BY <1>3 DEF BridgeInv, FreshReplyIsLast, Expected
<1> QED BY <1>4, <1>5, <1>6 DEF BridgeInv

\* The inbox loses its first item; nothing was under way, or the item is not
\* an answer to what is.
LEMMA TailKeeps ==
    ASSUME BridgeInv, inbox # <<>>, inbox' = Tail(inbox),
           UNCHANGED <<pc, call, met, uplink, open, greeting, session, line, doubted>>
    PROVE  BridgeInv'
<1>1. /\ inbox' \in Seq(Items) /\ Len(inbox') = Len(inbox) - 1 /\ Len(inbox) \in Nat \ {0}
      /\ \A i \in 1..Len(inbox') : inbox'[i] = inbox[i + 1]
  BY TailOf DEF BridgeInv, BridgeTypeOK
<1>2. DOMAIN inbox = 1..Len(inbox) /\ DOMAIN inbox' = 1..Len(inbox')
  BY <1>1 DEF BridgeInv, BridgeTypeOK
<1>3. \A i \in DOMAIN inbox' : i \in Nat /\ i + 1 \in DOMAIN inbox /\ inbox'[i] = inbox[i + 1]
  BY <1>1, <1>2
<1>4. BridgeTypeOK' /\ CallsInOrder' /\ FreshRequestIsLast' /\ FreshGreetingIsLast' /\ HintIsNoFact'
  BY <1>1 DEF BridgeInv, BridgeTypeOK, CallsInOrder, FreshRequestIsLast, FreshGreetingIsLast,
              HintIsNoFact, Expected
<1>5. SessionsAreKnown' /\ NoticesHold' /\ NothingLate'
  BY <1>3 DEF BridgeInv, BridgeTypeOK, SessionsAreKnown, NoticesHold, NothingLate
<1>6. FreshReplyIsLast'
  BY <1>3 DEF BridgeInv, FreshReplyIsLast, Expected
<1> QED BY <1>4, <1>5, <1>6 DEF BridgeInv

\* The node's wake, a notice of the edge thread, and Gone are no replies.
LEMMA Notices ==
    /\ Wake \in Items /\ Wake.kind = "wake" /\ ~Wake.stale /\ Wake.session = 0
    /\ Gone \in Items /\ Gone.kind = "gone" /\ ~Gone.stale /\ Gone.session = 0
    /\ \A level \in BOOLEAN : /\ EVENT_DIO1(level) \in Items /\ EVENT_DIO1(level).kind = "dio1"
                               /\ ~EVENT_DIO1(level).stale /\ EVENT_DIO1(level).session = 0
<1> DEFINE no == FALSE
<1>1. no \in BOOLEAN /\ ~no
  OBVIOUS
<1>2. ASSUME NEW kind \in {"dio1", "wake", "gone"}, NEW level \in BOOLEAN
      PROVE  /\ Item(kind, "", 0, level, no) \in Items /\ Item(kind, "", 0, level, no).kind = kind
             /\ Item(kind, "", 0, level, no).stale = no /\ Item(kind, "", 0, level, no).session = 0
  <2> HIDE DEF no
  <2> QED BY <1>1 DEF Item, Items
<1> QED BY <1>1, <1>2 DEF Wake, Gone, EVENT_DIO1

LEMMA TransmitKeeps == BridgeInv /\ transmit => BridgeInv'
BY Notices, NoticeKeeps DEF transmit, host, device, board

LEMMA EdgesKeep == BridgeInv /\ edges => BridgeInv'
<1> SUFFICES ASSUME BridgeInv, edges PROVE BridgeInv'
  OBVIOUS
<1>1. UNCHANGED <<pc, call, met, uplink, open, greeting, session, line, doubted>>
  BY DEF edges, host
<1>2. CASE UNCHANGED inbox
  BY <1>1, <1>2 DEF BridgeInv, BridgeTypeOK, CallsInOrder, SessionsAreKnown,
       FreshRequestIsLast, FreshGreetingIsLast, FreshReplyIsLast, NoticesHold,
       NothingLate, HintIsNoFact, Expected
<1>3. CASE inbox' = Append(inbox, EVENT_DIO1(line))
  <2>1. line \in BOOLEAN
    BY DEF BridgeInv, BridgeTypeOK
  <2> QED BY <1>1, <1>3, <2>1, Notices, NoticeKeeps
<1> QED BY <1>2, <1>3 DEF edges

LEMMA OtherKeeps == BridgeInv /\ call_other => BridgeInv'
BY TailKeeps DEF call_other, device, board

\* A wait drops a notice that says nothing, or ends; no call is under way.
LEMMA WaitKeeps == BridgeInv /\ wait => BridgeInv'
<1> SUFFICES ASSUME BridgeInv, wait PROVE BridgeInv'
  OBVIOUS
<1>1. call = "idle"
  BY TheCalls DEF BridgeInv, BridgeTypeOK, CallsInOrder, wait, Waits
<1>2. UNCHANGED <<call, met, uplink, open, greeting, session, line, doubted>>
  BY DEF wait, Waited, host, device, board
<1>3. \/ UNCHANGED inbox
      \/ inbox # <<>> /\ inbox' = Tail(inbox)
  BY DEF wait, Waited
<1>4. pc' \in {pc, "level", "txlevel"} /\ pc' \in Places /\ pc' # "process"
  BY TheCalls DEF wait, Waited, Waits, Places, host
<1>5. /\ inbox' \in Seq(Items)
      /\ \A i \in DOMAIN inbox' : \E j \in DOMAIN inbox : inbox'[i] = inbox[j]
  <2>1. CASE UNCHANGED inbox
    BY <2>1 DEF BridgeInv, BridgeTypeOK
  <2>2. CASE inbox # <<>> /\ inbox' = Tail(inbox)
    <3>1. /\ inbox' \in Seq(Items) /\ Len(inbox') = Len(inbox) - 1 /\ Len(inbox) \in Nat \ {0}
          /\ \A i \in 1..Len(inbox') : inbox'[i] = inbox[i + 1]
      BY <2>2, TailOf DEF BridgeInv, BridgeTypeOK
    <3>2. DOMAIN inbox = 1..Len(inbox) /\ DOMAIN inbox' = 1..Len(inbox')
      BY <3>1 DEF BridgeInv, BridgeTypeOK
    <3>3. \A i \in DOMAIN inbox' : i + 1 \in DOMAIN inbox /\ inbox'[i] = inbox[i + 1]
      BY <3>1, <3>2
    <3> QED BY <3>1, <3>3
  <2> QED BY <1>3, <2>1, <2>2
<1>6. BridgeTypeOK' /\ CallsInOrder' /\ FreshRequestIsLast' /\ FreshGreetingIsLast' /\ HintIsNoFact'
  BY <1>1, <1>2, <1>4, <1>5 DEF BridgeInv, BridgeTypeOK, CallsInOrder, FreshRequestIsLast,
              FreshGreetingIsLast, HintIsNoFact, Expected
<1>7. SessionsAreKnown' /\ NoticesHold' /\ NothingLate'
  BY <1>1, <1>2, <1>5 DEF BridgeInv, BridgeTypeOK, SessionsAreKnown, NoticesHold, NothingLate
<1>8. FreshReplyIsLast'
  BY <1>1, <1>2, <1>5 DEF BridgeInv, FreshReplyIsLast
<1> QED BY <1>6, <1>7, <1>8 DEF BridgeInv

----------------------------------------------------------------------------
(* The cable and the board.                                                *)

\* What was asked is lost.
LEMMA UplinkLost ==
    ASSUME uplink' = <<>>
    PROVE  uplink' \in Seq(Requests) /\ DOMAIN uplink' = {}
OBVIOUS

LEMMA CloseKeeps == BridgeInv /\ close => BridgeInv'
<1> SUFFICES ASSUME BridgeInv, close PROVE BridgeInv'
  OBVIOUS
<1>1. /\ ~open' /\ uplink' = <<>> /\ inbox' = Append(inbox, Gone)
      /\ UNCHANGED <<pc, call, met, greeting, session, line, doubted>>
      /\ open
  BY DEF close, host, device, board
<1>2. /\ inbox' \in Seq(Items) /\ Len(inbox') = Len(inbox) + 1 /\ Len(inbox) \in Nat
      /\ \A i \in 1..Len(inbox) : inbox'[i] = inbox[i]
      /\ inbox'[Len(inbox) + 1] = Gone
  BY <1>1, AppendTo, Notices DEF BridgeInv, BridgeTypeOK
<1>3. DOMAIN inbox = 1..Len(inbox) /\ DOMAIN inbox' = 1..Len(inbox')
  BY <1>2 DEF BridgeInv, BridgeTypeOK
<1>4. \A i \in DOMAIN inbox' : (i \in DOMAIN inbox /\ inbox'[i] = inbox[i]) \/ inbox'[i] = Gone
  BY <1>2, <1>3
<1>5. open' \in BOOLEAN
  BY DEF close
<1>6. uplink' \in Seq(Requests) /\ DOMAIN uplink' = {}
  BY <1>1, UplinkLost
<1>7. BridgeTypeOK' /\ CallsInOrder' /\ FreshRequestIsLast' /\ FreshGreetingIsLast' /\ HintIsNoFact'
  BY <1>1, <1>2, <1>5, <1>6 DEF BridgeInv, BridgeTypeOK, CallsInOrder, FreshRequestIsLast,
      FreshGreetingIsLast, HintIsNoFact, Expected
<1>8. SessionsAreKnown' /\ NoticesHold' /\ NothingLate'
  BY <1>1, <1>4, <1>6, Notices DEF BridgeInv, BridgeTypeOK, SessionsAreKnown, NoticesHold, NothingLate
<1>9. FreshReplyIsLast'
  BY <1>1, <1>4, Notices DEF BridgeInv, FreshReplyIsLast, Expected
<1> QED BY <1>7, <1>8, <1>9 DEF BridgeInv

LEMMA RestartKeeps == BridgeInv /\ restart => BridgeInv'
<1> SUFFICES ASSUME BridgeInv, restart PROVE BridgeInv'
  OBVIOUS
<1>1. /\ open /\ uplink' = <<>> /\ greeting' = {} /\ session' = session + 1
      /\ UNCHANGED <<pc, call, met, inbox, open, doubted>>
      /\ line' \in BOOLEAN
  BY DEF restart, host
<1>2. uplink' \in Seq(Requests) /\ DOMAIN uplink' = {}
  BY <1>1, UplinkLost
<1>3. session' \in Nat /\ session' > session /\ session' > met
  BY <1>1 DEF BridgeInv, BridgeTypeOK, SessionsAreKnown
<1>4. BridgeTypeOK'
  BY <1>1, <1>2, <1>3 DEF BridgeInv, BridgeTypeOK
<1>5. \A i \in DOMAIN inbox : inbox[i].session \in Nat
  <2>1. \A i \in DOMAIN inbox : inbox[i] \in Items
    BY DEF BridgeInv, BridgeTypeOK
  <2> QED BY <2>1 DEF Items
<1>6. CallsInOrder' /\ SessionsAreKnown' /\ NoticesHold' /\ NothingLate'
  BY <1>1, <1>2, <1>3, <1>5 DEF BridgeInv, BridgeTypeOK, CallsInOrder, SessionsAreKnown,
      NoticesHold, NothingLate
<1>7. met' # session' 
  BY <1>1, <1>3 DEF BridgeInv, BridgeTypeOK
<1>8. HintIsNoFact' /\ FreshRequestIsLast' /\ FreshGreetingIsLast' /\ FreshReplyIsLast'
  BY <1>1, <1>2, <1>7 DEF BridgeInv, HintIsNoFact, FreshRequestIsLast, FreshGreetingIsLast,
      FreshReplyIsLast, Expected
<1> QED BY <1>4, <1>6, <1>8 DEF BridgeInv

\* The board answers: the reply is behind all others, and late exactly if the
\* request is.
LEMMA ReplyIsLast ==
    ASSUME BridgeInv, NEW item \in Items, item.kind = "reply", inbox' = Append(inbox, item),
           item.session = session,
           UNCHANGED <<pc, call, met, open, session, doubted>>,
           uplink' \in Seq(Requests), greeting' = {}, line' \in BOOLEAN,
           ~item.stale => uplink' = <<>> /\ call # "idle" /\ item.cmd = Expected,
           ~item.stale /\ item.cmd = "PINS" /\ item.level => line',
           \A i \in DOMAIN inbox : inbox[i].kind = "reply" => inbox[i].stale,
           ~open => uplink' = <<>>,
           \A i \in DOMAIN uplink' : \E j \in DOMAIN uplink :
                uplink'[i] = uplink[j] /\ (j = Len(uplink) => i = Len(uplink')),
           (item.stale /\ ~doubted /\ (open \/ call # "idle")) => call = "verify" /\ item.cmd # "HELLO",
           HintIsNoFact'
    PROVE  BridgeInv'
<1>1. /\ inbox' \in Seq(Items) /\ Len(inbox') = Len(inbox) + 1 /\ Len(inbox) \in Nat
      /\ \A i \in 1..Len(inbox) : inbox'[i] = inbox[i]
      /\ inbox'[Len(inbox) + 1] = item
  BY AppendTo DEF BridgeInv, BridgeTypeOK
<1>2. DOMAIN inbox = 1..Len(inbox) /\ DOMAIN inbox' = 1..Len(inbox')
  BY <1>1 DEF BridgeInv, BridgeTypeOK
<1>3. \A i \in DOMAIN inbox' : \/ i \in DOMAIN inbox /\ inbox'[i] = inbox[i]
                               \/ i = Len(inbox') /\ inbox'[i] = item
  BY <1>1, <1>2
<1>4. BridgeTypeOK' /\ CallsInOrder' /\ FreshGreetingIsLast'
  BY <1>1 DEF BridgeInv, BridgeTypeOK, CallsInOrder, FreshGreetingIsLast
<1>5. FreshRequestIsLast'
  BY DEF BridgeInv, FreshRequestIsLast, Expected
<1>6. SessionsAreKnown'
  BY <1>3 DEF BridgeInv, BridgeTypeOK, SessionsAreKnown
<1>7. NoticesHold'
  BY <1>3 DEF BridgeInv, NoticesHold
<1>8. NothingLate'
  BY <1>3 DEF BridgeInv, NothingLate
<1>9. FreshReplyIsLast'
  <2> SUFFICES ASSUME NEW i \in DOMAIN inbox', inbox'[i].kind = "reply", ~inbox'[i].stale
               PROVE  (/\ uplink = <<>> /\ greeting = {}
                       /\ \A j \in DOMAIN inbox : j > i => inbox[j].kind # "reply"
                       /\ call # "idle" /\ inbox[i].cmd = Expected
                       /\ (inbox[i].cmd = "PINS" /\ inbox[i].level /\ session = met) => line)'
    BY DEF FreshReplyIsLast
  <2>1. i = Len(inbox') /\ inbox'[i] = item
    BY <1>3
  <2>2. \A j \in DOMAIN inbox' : ~(j > i)
    BY <1>1, <1>2, <2>1
  <2> QED BY <2>1, <2>2 DEF Expected
<1> QED BY <1>4, <1>5, <1>6, <1>7, <1>8, <1>9 DEF BridgeInv

LEMMA HandleKeeps == BridgeInv /\ handle => BridgeInv'
<1> SUFFICES ASSUME BridgeInv, handle PROVE BridgeInv'
  OBVIOUS
<1> DEFINE request == Head(uplink)
<1>1. /\ uplink # <<>> /\ greeting = {} /\ uplink' = Tail(uplink)
      /\ UNCHANGED <<pc, call, met, open, session, doubted>>
  BY DEF handle, host
<1>2. /\ request = uplink[1] /\ request \in Requests
      /\ uplink' \in Seq(Requests) /\ Len(uplink') = Len(uplink) - 1 /\ Len(uplink) \in Nat \ {0}
      /\ \A i \in 1..Len(uplink') : uplink'[i] = uplink[i + 1]
  BY <1>1, TailOf DEF BridgeInv, BridgeTypeOK
<1>3. DOMAIN uplink = 1..Len(uplink) /\ DOMAIN uplink' = 1..Len(uplink') /\ 1 \in DOMAIN uplink
  BY <1>2 DEF BridgeInv, BridgeTypeOK
<1>4. \A i \in DOMAIN uplink' : \E j \in DOMAIN uplink :
          uplink'[i] = uplink[j] /\ (j = Len(uplink) => i = Len(uplink'))
  BY <1>2, <1>3
<1>5. open
  BY <1>1 DEF BridgeInv, CallsInOrder
<1>6. request.at \in Calls /\ request.stale \in BOOLEAN
  BY <1>2 DEF Requests
<1> HIDE DEF request
<1>7. ~request.stale => uplink' = <<>> /\ call # "idle" /\ Command[request.at] = Expected
  <2>1. ~request.stale => 1 = Len(uplink) /\ call # "idle" /\ Command[request.at] = Expected
    BY <1>2, <1>3 DEF BridgeInv, FreshRequestIsLast
  <2>2. Len(uplink) = 1 => uplink' = <<>>
    BY <1>2
  <2> QED BY <2>1, <2>2
<1>8. (request.stale /\ ~doubted) => call = "verify" /\ Command[request.at] # "HELLO"
  BY <1>2, <1>3, <1>5 DEF BridgeInv, NothingLate
<1>9. \A i \in DOMAIN inbox : inbox[i].kind = "reply" => inbox[i].stale
  BY <1>1 DEF BridgeInv, FreshReplyIsLast
<1>10. ~doubted => call # "idle"
  BY <1>6, <1>7, <1>8
<1>11. HintIsNoFact'
  BY <1>1, <1>10 DEF HintIsNoFact
<1>12. CASE request.at = "hello"
  <2>1. greeting' = {[level |-> line, stale |-> request.stale]} /\ UNCHANGED <<inbox, line>>
    BY <1>12 DEF handle, request
  <2> DEFINE g == [level |-> line, stale |-> request.stale]
  <2>2. g \in Greetings /\ g.stale = request.stale
    BY <1>6 DEF Greetings, BridgeInv, BridgeTypeOK
  <2>3. greeting' = {g}
    BY <2>1
  <2> HIDE DEF g
  <2>4. Command[request.at] = "HELLO"
    BY <1>6, <1>12, TheCalls
  <2>5. BridgeTypeOK' /\ CallsInOrder' /\ SessionsAreKnown' /\ NoticesHold'
    BY <1>1, <1>2, <1>5, <2>1, <2>2, <2>3 DEF BridgeInv, BridgeTypeOK, CallsInOrder, SessionsAreKnown,
        NoticesHold
  <2>6. FreshRequestIsLast'
    BY <1>1, <1>4 DEF BridgeInv, FreshRequestIsLast, Expected
  <2>7. FreshGreetingIsLast'
    BY <1>1, <1>7, <2>2, <2>3, <2>4 DEF FreshGreetingIsLast, Expected
  <2>8. FreshReplyIsLast'
    BY <1>9, <2>1 DEF FreshReplyIsLast
  <2>9. NothingLate'
    BY <1>1, <1>4, <1>8, <2>1, <2>2, <2>3, <2>4 DEF BridgeInv, NothingLate
  <2> QED BY <1>11, <2>5, <2>6, <2>7, <2>8, <2>9 DEF BridgeInv
<1>13. CASE request.at # "hello"
  <2> DEFINE item == Reply(request, line /\ Command[request.at] = "PINS")
  <2>1. inbox' = Append(inbox, item) /\ greeting' = {} /\ Execute(request.at)
    BY <1>1, <1>13 DEF handle, request
  <2>2. /\ item \in Items /\ item.kind = "reply" /\ item.session = session
        /\ item.cmd = Command[request.at] /\ item.stale = request.stale
        /\ item.level = (line /\ Command[request.at] = "PINS")
    <3> DEFINE lvl == (line /\ Command[request.at] = "PINS")
    <3>1. lvl \in BOOLEAN /\ session \in Nat
      BY DEF BridgeInv, BridgeTypeOK
    <3>2. Command[request.at] \in {"", "HELLO", "RESET", "SPI", "PINS"}
      BY <1>6, TheCalls
    <3>3. item = Item("reply", Command[request.at], session, lvl, request.stale)
      BY DEF Reply
    <3> HIDE DEF lvl, item
    <3>4. item \in Items /\ item.kind = "reply" /\ item.session = session
          /\ item.cmd = Command[request.at] /\ item.stale = request.stale /\ item.level = lvl
      BY <1>6, <3>1, <3>2, <3>3 DEF Item, Items
    <3> QED BY <3>4, <3>3 DEF lvl
  <2> HIDE DEF item
  <2>3. line' \in BOOLEAN
    BY <2>1 DEF Execute
  <2>4. ~item.stale /\ item.cmd = "PINS" /\ item.level => line'
    BY <1>6, <2>1, <2>2, TheCalls DEF Execute
  <2> QED BY <1>1, <1>2, <1>4, <1>5, <1>7, <1>8, <1>9, <1>11, <2>1, <2>2, <2>3, <2>4, ReplyIsLast
<1> QED BY <1>12, <1>13

\* The greeting a HELLO left is answered, or the port is closed by then.
LEMMA GreetKeeps == BridgeInv /\ greet => BridgeInv'
<1> SUFFICES ASSUME BridgeInv, greet PROVE BridgeInv'
  OBVIOUS
<1>1. greeting' = {} /\ UNCHANGED <<pc, call, met, open, session, doubted, uplink, line>>
  BY DEF greet, host
<1>2. PICK g \in greeting :
        inbox' = IF open THEN Append(inbox, Item("reply", "HELLO", session, g.level, g.stale)) ELSE inbox
  BY DEF greet
<1>3. g.level \in BOOLEAN /\ g.stale \in BOOLEAN
  BY DEF BridgeInv, BridgeTypeOK, Greetings
<1>4. HintIsNoFact'
  BY <1>1 DEF BridgeInv, HintIsNoFact
<1>5. \A i \in DOMAIN inbox : inbox[i].kind = "reply" => inbox[i].stale
  BY DEF BridgeInv, FreshReplyIsLast
<1>6. CASE ~open
  <2>1. UNCHANGED inbox
    BY <1>2, <1>6
  <2>2. BridgeTypeOK' /\ CallsInOrder' /\ SessionsAreKnown' /\ NoticesHold' /\ NothingLate'
    BY <1>1, <2>1 DEF BridgeInv, BridgeTypeOK, CallsInOrder, SessionsAreKnown, NoticesHold,
        NothingLate
  <2>3. FreshRequestIsLast' /\ FreshGreetingIsLast' /\ FreshReplyIsLast'
    BY <1>1, <1>5, <2>1 DEF BridgeInv, FreshRequestIsLast, FreshGreetingIsLast, FreshReplyIsLast, Expected
  <2> QED BY <1>4, <2>2, <2>3 DEF BridgeInv
<1>7. CASE open
  <2> DEFINE item == Item("reply", "HELLO", session, g.level, g.stale)
  <2>1. inbox' = Append(inbox, item)
    BY <1>2, <1>7
  <2>2. session \in Nat
    BY DEF BridgeInv, BridgeTypeOK
  <2>3. /\ item \in Items /\ item.kind = "reply" /\ item.session = session
        /\ item.cmd = "HELLO" /\ item.stale = g.stale
    BY <1>3, <2>2 DEF Item, Items
  <2> HIDE DEF item
  <2>4. ~item.stale => uplink' = <<>> /\ call # "idle" /\ item.cmd = Expected
    BY <1>1, <2>3 DEF BridgeInv, FreshGreetingIsLast
  <2>5. item.stale => ~(~doubted /\ (open \/ call # "idle"))
    BY <2>3 DEF BridgeInv, NothingLate
  <2>6. uplink' \in Seq(Requests) /\ line' \in BOOLEAN
    BY <1>1 DEF BridgeInv, BridgeTypeOK
  <2>7. \A i \in DOMAIN uplink' : \E j \in DOMAIN uplink :
          uplink'[i] = uplink[j] /\ (j = Len(uplink) => i = Len(uplink'))
    BY <1>1
  <2> QED BY <1>1, <1>4, <1>5, <1>7, <2>1, <2>3, <2>4, <2>5, <2>6, <2>7, ReplyIsLast
<1> QED BY <1>6, <1>7 DEF BridgeInv, BridgeTypeOK

----------------------------------------------------------------------------
(* The driver thread.                                                      *)

\* Between calls, whatever is on its way is late.
LEMMA IdleIsLate ==
    ASSUME BridgeInv, call = "idle"
    PROVE  /\ \A i \in DOMAIN uplink : uplink[i].stale
           /\ \A g \in greeting : g.stale
           /\ \A i \in DOMAIN inbox : inbox[i].kind = "reply" => inbox[i].stale
BY DEF BridgeInv, FreshRequestIsLast, FreshGreetingIsLast, FreshReplyIsLast

LEMMA BeginKeeps == BridgeInv /\ call_begin => BridgeInv'
<1> SUFFICES ASSUME BridgeInv, call_begin PROVE BridgeInv'
  OBVIOUS
<1>1. /\ pc \in Calls /\ call = "idle"
      /\ UNCHANGED <<met, inbox, open, greeting, session, line, doubted>>
  BY DEF call_begin, device, board
<1>2. CASE poisoned \/ ~open
  <2>1. call' = "idle" /\ pc' \in after(pc, FALSE, FALSE) /\ UNCHANGED uplink
    BY <1>2 DEF call_begin, Return
  <2>2. pc' \in Places /\ pc' # "process"
    BY <1>1, <2>1, WhereNext
  <2>3. BridgeTypeOK' /\ CallsInOrder' /\ SessionsAreKnown' /\ NoticesHold' /\ NothingLate' /\ HintIsNoFact'
    BY <1>1, <2>1, <2>2 DEF BridgeInv, BridgeTypeOK, CallsInOrder, SessionsAreKnown, NoticesHold,
        NothingLate, HintIsNoFact
  <2>4. FreshRequestIsLast' /\ FreshGreetingIsLast' /\ FreshReplyIsLast'
    BY <1>1, <2>1, IdleIsLate DEF BridgeInv, FreshRequestIsLast, FreshGreetingIsLast, FreshReplyIsLast
  <2> QED BY <2>3, <2>4 DEF BridgeInv
<1>3. CASE ~(poisoned \/ ~open)
  <2>1. call' = "sent" /\ pc' = pc /\ uplink' = Append(uplink, Request(pc))
    BY <1>3 DEF call_begin
  <2>2. Request(pc) \in Requests /\ Request(pc).at = pc /\ ~Request(pc).stale
    BY <1>1 DEF Request, Requests
  <2>3. /\ uplink' \in Seq(Requests) /\ Len(uplink') = Len(uplink) + 1 /\ Len(uplink) \in Nat
        /\ \A i \in 1..Len(uplink) : uplink'[i] = uplink[i]
        /\ uplink'[Len(uplink) + 1] = Request(pc)
    BY <2>1, <2>2, AppendTo DEF BridgeInv, BridgeTypeOK
  <2>4. \A i \in DOMAIN uplink' : \/ i \in DOMAIN uplink /\ uplink'[i] = uplink[i]
                                  \/ i = Len(uplink') /\ uplink'[i] = Request(pc)
    BY <2>3 DEF BridgeInv, BridgeTypeOK
  <2>5. BridgeTypeOK' /\ CallsInOrder' /\ SessionsAreKnown' /\ NoticesHold' /\ HintIsNoFact'
    BY <1>1, <1>3, <2>1, <2>3 DEF BridgeInv, BridgeTypeOK, CallsInOrder, SessionsAreKnown,
        NoticesHold, HintIsNoFact
  <2>6. FreshRequestIsLast'
    BY <1>1, <2>1, <2>2, <2>4, IdleIsLate DEF FreshRequestIsLast, Expected
  <2>7. FreshGreetingIsLast' /\ FreshReplyIsLast'
    BY <1>1, IdleIsLate DEF BridgeInv, FreshGreetingIsLast, FreshReplyIsLast
  <2>8. NothingLate'
    BY <1>1, <1>3, <2>2, <2>4 DEF BridgeInv, NothingLate
  <2> QED BY <2>5, <2>6, <2>7, <2>8 DEF BridgeInv
<1> QED BY <1>2, <1>3

\* A greeting that is late is the one there was.
LEMMA GreetingSpoiled ==
    ASSUME BridgeInv, greeting' = SpoilGreeting
    PROVE  /\ greeting' \in SUBSET Greetings
           /\ \A g \in greeting' : g.stale /\ greeting' = {g}
           /\ greeting = {} => greeting' = {}
<1>1. \A g \in greeting : [level |-> g.level, stale |-> TRUE] \in Greetings
  <2> DEFINE yes == TRUE
  <2>1. yes \in BOOLEAN
    OBVIOUS
  <2>2. \A g \in greeting : g.level \in BOOLEAN
    BY DEF BridgeInv, BridgeTypeOK, Greetings
  <2> HIDE DEF yes
  <2>3. \A g \in greeting : [level |-> g.level, stale |-> yes] \in Greetings
    BY <2>1, <2>2 DEF Greetings
  <2> QED BY <2>3 DEF yes
<1>2. greeting' \in SUBSET Greetings /\ \A g \in greeting' : g.stale
  BY <1>1 DEF SpoilGreeting
<1>3. \A g, h \in greeting : g = h
  BY DEF BridgeInv, FreshGreetingIsLast
<1>4. \A g, h \in greeting' : g = h
  BY <1>3 DEF SpoilGreeting
<1>5. \A g \in greeting' : greeting' = {g}
  BY <1>4
<1>6. greeting = {} => greeting' = {}
  BY DEF SpoilGreeting
<1> QED BY <1>2, <1>5, <1>6

\* A call that took its answer leaves nothing but late replies behind, and
\* none at all unless the answer itself was late.
LEMMA AnsweredKeeps ==
    ASSUME BridgeInv, NEW rest \in Seq(Items), Answered(rest),
           \A i \in DOMAIN rest : /\ rest[i].session <= session
                                  /\ rest[i].kind # "reply" => ~rest[i].stale
                                  /\ rest[i].kind = "gone" => ~open,
           call' = "idle", pc' \in Places, open' = open, doubted' \in BOOLEAN,
           met' \in Nat, met' <= session,
           (~doubted' /\ open) =>
               uplink = <<>> /\ greeting = {} /\ \A i \in DOMAIN rest : rest[i].kind # "reply",
           HintIsNoFact'
    PROVE  BridgeInv'
<1>1. /\ inbox' = SpoilReplies(rest) /\ uplink' = Spoil(uplink) /\ greeting' = SpoilGreeting
      /\ UNCHANGED <<session, line>>
  BY DEF Answered, board
<1>2. /\ inbox' \in Seq(Items) /\ Len(inbox') = Len(rest) /\ Len(rest) \in Nat
      /\ \A i \in 1..Len(rest) :
            /\ inbox'[i].kind = rest[i].kind
            /\ inbox'[i].session = rest[i].session
            /\ inbox'[i].stale = (rest[i].kind = "reply" \/ rest[i].stale)
  BY <1>1, Spoiled
<1>3. /\ uplink' \in Seq(Requests) /\ Len(uplink') = Len(uplink) /\ Len(uplink) \in Nat
      /\ \A i \in 1..Len(uplink) : uplink'[i].stale
  BY <1>1, Spoiled DEF BridgeInv, BridgeTypeOK
<1>4. DOMAIN inbox' = DOMAIN rest /\ DOMAIN rest = 1..Len(rest) /\ DOMAIN uplink' = 1..Len(uplink)
  BY <1>2, <1>3
<1>5. /\ greeting' \in SUBSET Greetings
      /\ \A g \in greeting' : g.stale /\ greeting' = {g}
      /\ greeting = {} => greeting' = {}
  BY <1>1, GreetingSpoiled
<1>6. uplink = <<>> => uplink' = <<>>
  BY <1>3
<1>7. BridgeTypeOK'
  BY <1>1, <1>2, <1>3, <1>5 DEF BridgeInv, BridgeTypeOK
<1>8. CallsInOrder'
  BY <1>6 DEF BridgeInv, CallsInOrder
<1>9. SessionsAreKnown' /\ NoticesHold'
  BY <1>1, <1>2, <1>4 DEF SessionsAreKnown, NoticesHold
<1>10. FreshRequestIsLast' /\ FreshGreetingIsLast' /\ FreshReplyIsLast'
  BY <1>2, <1>3, <1>4, <1>5 DEF FreshRequestIsLast, FreshGreetingIsLast, FreshReplyIsLast
<1>11. NothingLate'
  <2> SUFFICES ASSUME ~doubted', open
               PROVE  NothingLate'
    BY DEF NothingLate
  <2>1. DOMAIN uplink' = {} /\ greeting' = {}
    BY <1>3, <1>4, <1>5
  <2>2. \A i \in DOMAIN inbox' : ~inbox'[i].stale
    BY <1>2, <1>4
  <2> QED BY <2>1, <2>2 DEF NothingLate
<1> QED BY <1>7, <1>8, <1>9, <1>10, <1>11 DEF BridgeInv

\* What is left when the first item was taken.
LEMMA TheRest ==
    ASSUME BridgeInv, inbox # <<>>
    PROVE  /\ Head(inbox) \in Items /\ Head(inbox).session <= session
           /\ Head(inbox).kind = "gone" => ~open
           /\ Tail(inbox) \in Seq(Items)
           /\ \A i \in DOMAIN Tail(inbox) :
                /\ Tail(inbox)[i].session <= session
                /\ Tail(inbox)[i].kind # "reply" => ~Tail(inbox)[i].stale
                /\ Tail(inbox)[i].kind = "gone" => ~open
           /\ (Head(inbox).kind = "reply" /\ ~Head(inbox).stale) =>
                /\ uplink = <<>> /\ greeting = {}
                /\ \A i \in DOMAIN Tail(inbox) : Tail(inbox)[i].kind # "reply"
                /\ (Head(inbox).cmd = "PINS" /\ Head(inbox).level /\ session = met) => line
           /\ (Head(inbox).stale /\ ~doubted /\ call # "idle") =>
                call = "verify" /\ Head(inbox).cmd # "HELLO"
<1>1. /\ Head(inbox) = inbox[1] /\ Head(inbox) \in Items
      /\ Tail(inbox) \in Seq(Items) /\ Len(Tail(inbox)) = Len(inbox) - 1 /\ Len(inbox) \in Nat \ {0}
      /\ \A i \in 1..Len(Tail(inbox)) : Tail(inbox)[i] = inbox[i + 1]
  BY TailOf DEF BridgeInv, BridgeTypeOK
<1>2. DOMAIN inbox = 1..Len(inbox) /\ DOMAIN Tail(inbox) = 1..Len(Tail(inbox))
  BY <1>1 DEF BridgeInv, BridgeTypeOK
<1>3. \A i \in DOMAIN Tail(inbox) :
        i \in Nat /\ i + 1 > 1 /\ i + 1 \in DOMAIN inbox /\ Tail(inbox)[i] = inbox[i + 1]
  BY <1>1, <1>2
<1>4. 1 \in DOMAIN inbox
  BY <1>1, <1>2
<1>5. Head(inbox).session <= session /\ (Head(inbox).kind = "gone" => ~open)
  BY <1>1, <1>4 DEF BridgeInv, SessionsAreKnown, NoticesHold
<1>6. \A i \in DOMAIN Tail(inbox) :
        /\ Tail(inbox)[i].session <= session
        /\ Tail(inbox)[i].kind # "reply" => ~Tail(inbox)[i].stale
        /\ Tail(inbox)[i].kind = "gone" => ~open
  BY <1>3 DEF BridgeInv, SessionsAreKnown, NoticesHold
<1>7. (Head(inbox).kind = "reply" /\ ~Head(inbox).stale) =>
        /\ uplink = <<>> /\ greeting = {}
        /\ \A i \in DOMAIN Tail(inbox) : Tail(inbox)[i].kind # "reply"
        /\ (Head(inbox).cmd = "PINS" /\ Head(inbox).level /\ session = met) => line
  BY <1>1, <1>3, <1>4 DEF BridgeInv, FreshReplyIsLast
<1>8. (Head(inbox).stale /\ ~doubted /\ call # "idle") => call = "verify" /\ Head(inbox).cmd # "HELLO"
  BY <1>1, <1>4 DEF BridgeInv, NothingLate
<1> QED BY <1>1, <1>5, <1>6, <1>7, <1>8

LEMMA CallAnsweredKeeps == BridgeInv /\ call_answered => BridgeInv'
<1> SUFFICES ASSUME BridgeInv, call_answered PROVE BridgeInv'
  OBVIOUS
<1> DEFINE reply == Head(inbox)
           left == IF (pc = "txlevel" /\ reply.level) /\ host_wanted
                   THEN Append(Tail(inbox), Wake) ELSE Tail(inbox)
<1>1. /\ call = "sent" /\ inbox # <<>> /\ reply.kind = "reply" /\ reply.cmd = Expected
      /\ Return(TRUE, reply.level, poisoned) /\ Answered(left)
      /\ met' = IF pc = "hello" THEN reply.session ELSE met
      /\ doubted' = (doubted /\ reply.stale)
      /\ open' = open
  BY DEF call_answered
<1>2. /\ reply \in Items /\ reply.session <= session
      /\ Tail(inbox) \in Seq(Items)
      /\ \A i \in DOMAIN Tail(inbox) :
           /\ Tail(inbox)[i].session <= session
           /\ Tail(inbox)[i].kind # "reply" => ~Tail(inbox)[i].stale
           /\ Tail(inbox)[i].kind = "gone" => ~open
      /\ ~reply.stale =>
           /\ uplink = <<>> /\ greeting = {}
           /\ \A i \in DOMAIN Tail(inbox) : Tail(inbox)[i].kind # "reply"
           /\ (reply.cmd = "PINS" /\ reply.level /\ session = met) => line
      /\ reply.stale => doubted
  BY <1>1, TheRest
<1>3. reply.session \in Nat /\ reply.level \in BOOLEAN /\ reply.stale \in BOOLEAN
  BY <1>2 DEF Items
<1> HIDE DEF reply
<1>4. pc \in Calls /\ pc' \in after(pc, TRUE, reply.level) /\ call' = "idle"
  BY <1>1 DEF BridgeInv, CallsInOrder, Return
<1>5. pc' \in Places /\ (pc' = "process" => pc = "level" /\ reply.level)
  BY <1>3, <1>4, WhereNext
<1>6. ~doubted' => ~reply.stale
  BY <1>1, <1>2, <1>3
<1>7. met' \in Nat /\ met' <= session /\ doubted' \in BOOLEAN
  BY <1>1, <1>2, <1>3 DEF BridgeInv, BridgeTypeOK, SessionsAreKnown
<1>8. UNCHANGED <<session, line>>
  BY <1>1 DEF Answered, board
<1>9. HintIsNoFact'
  <2> SUFFICES ASSUME pc' = "process", ~doubted', session' = met' PROVE line'
    BY DEF HintIsNoFact
  <2>1. pc = "level" /\ reply.level /\ met' = met
    BY <1>1, <1>5
  <2>2. reply.cmd = "PINS"
    BY <1>1, <1>4, <2>1, TheCalls DEF Expected
  <2> QED BY <1>2, <1>6, <1>8, <2>1, <2>2
<1>10. /\ left \in Seq(Items)
       /\ \A i \in DOMAIN left : (i \in DOMAIN Tail(inbox) /\ left[i] = Tail(inbox)[i]) \/ left[i] = Wake
  <2>1. CASE left = Tail(inbox)
    <3> HIDE DEF left
    <3> QED BY <1>2, <2>1
  <2>2. CASE left = Append(Tail(inbox), Wake)
    <3> HIDE DEF left
    <3>1. /\ left \in Seq(Items) /\ Len(left) = Len(Tail(inbox)) + 1 /\ Len(Tail(inbox)) \in Nat
          /\ \A i \in 1..Len(Tail(inbox)) : left[i] = Tail(inbox)[i]
          /\ left[Len(Tail(inbox)) + 1] = Wake
      BY <1>2, <2>2, AppendTo, Notices
    <3> QED BY <1>2, <3>1
  <2> QED BY <2>1, <2>2
<1> HIDE DEF left
<1>11. session \in Nat
  BY DEF BridgeInv, BridgeTypeOK
<1>12. \A i \in DOMAIN left : /\ left[i].session <= session
                              /\ left[i].kind # "reply" => ~left[i].stale
                              /\ left[i].kind = "gone" => ~open
  BY <1>2, <1>10, <1>11, Notices
<1>13. ~reply.stale => \A i \in DOMAIN left : left[i].kind # "reply"
  BY <1>2, <1>10, Notices
<1>14. (~doubted' /\ open) =>
          uplink = <<>> /\ greeting = {} /\ \A i \in DOMAIN left : left[i].kind # "reply"
  BY <1>2, <1>6, <1>13
<1> QED BY <1>1, <1>4, <1>5, <1>7, <1>9, <1>10, <1>12, <1>14, AnsweredKeeps

LEMMA VerifyAnsweredKeeps == BridgeInv /\ verify_answered => BridgeInv'
<1> SUFFICES ASSUME BridgeInv, verify_answered PROVE BridgeInv'
  OBVIOUS
<1>1. /\ call = "verify" /\ inbox # <<>> /\ Head(inbox).kind = "reply" /\ Head(inbox).cmd = "HELLO"
      /\ call' = "idle" /\ pc' \in after(pc, FALSE, FALSE) /\ Answered(Tail(inbox))
      /\ doubted' = (doubted /\ Head(inbox).stale) /\ open' = open /\ met' = met
  BY DEF verify_answered, Return
<1>2. pc' \in Places /\ pc' # "process"
  BY <1>1, WhereNext DEF BridgeInv, CallsInOrder
<1>3. HintIsNoFact'
  BY <1>2 DEF HintIsNoFact
<1>4. Head(inbox) \in Items /\ (Head(inbox).stale => doubted)
  BY <1>1, TheRest
<1>5. doubted' \in BOOLEAN /\ (~doubted' => ~Head(inbox).stale)
  BY <1>1, <1>4 DEF Items
<1>6. met' \in Nat /\ met' <= session
  BY <1>1 DEF BridgeInv, BridgeTypeOK, SessionsAreKnown
<1> QED BY <1>1, <1>2, <1>3, <1>5, <1>6, TheRest, AnsweredKeeps

LEMMA GoneKeeps == BridgeInv /\ call_gone => BridgeInv'
<1> SUFFICES ASSUME BridgeInv, call_gone PROVE BridgeInv'
  OBVIOUS
<1>1. /\ call # "idle" /\ inbox # <<>> /\ Head(inbox).kind = "gone"
      /\ call' = "idle" /\ pc' \in after(pc, FALSE, FALSE) /\ Answered(Tail(inbox))
      /\ UNCHANGED <<doubted, open, met>>
  BY DEF call_gone, Return
<1>2. pc' \in Places /\ pc' # "process"
  BY <1>1, WhereNext DEF BridgeInv, CallsInOrder
<1>3. HintIsNoFact'
  BY <1>2 DEF HintIsNoFact
<1>4. ~open
  BY <1>1, TheRest
<1> QED BY <1>1, <1>2, <1>3, <1>4, TheRest, AnsweredKeeps DEF BridgeInv, BridgeTypeOK, SessionsAreKnown

\* A call given up for good leaves a doubt.
LEMMA GiveUpKeeps ==
    ASSUME BridgeInv, inbox = <<>>, uplink' = Spoil(uplink), greeting' = SpoilGreeting,
           call' = "idle", doubted' = TRUE, pc' \in Places,
           UNCHANGED <<inbox, met, open, session, line>>
    PROVE  BridgeInv'
<1>1. DOMAIN inbox' = {}
  OBVIOUS
<1>2. /\ uplink' \in Seq(Requests) /\ Len(uplink') = Len(uplink) /\ Len(uplink) \in Nat
      /\ \A i \in 1..Len(uplink) : uplink'[i].stale
  BY Spoiled DEF BridgeInv, BridgeTypeOK
<1>3. \A i \in DOMAIN uplink' : uplink'[i].stale
  BY <1>2
<1>4. greeting' \in SUBSET Greetings /\ \A g \in greeting' : g.stale /\ greeting' = {g}
  BY GreetingSpoiled
<1>5. doubted' \in BOOLEAN
  OBVIOUS
<1>6. BridgeTypeOK'
  BY <1>2, <1>4, <1>5 DEF BridgeInv, BridgeTypeOK
<1>7. CallsInOrder' /\ SessionsAreKnown' /\ NoticesHold'
  BY <1>1, <1>2 DEF BridgeInv, CallsInOrder, SessionsAreKnown, NoticesHold
<1>8. FreshRequestIsLast' /\ FreshGreetingIsLast' /\ FreshReplyIsLast' /\ NothingLate' /\ HintIsNoFact'
  BY <1>1, <1>3, <1>4 DEF FreshRequestIsLast, FreshGreetingIsLast, FreshReplyIsLast, NothingLate,
      HintIsNoFact
<1> QED BY <1>6, <1>7, <1>8 DEF BridgeInv

LEMMA SilenceIs ==
    ASSUME NEW early \in BOOLEAN, Silence(early)
    PROVE  /\ inbox = <<>> /\ greeting' = SpoilGreeting
           /\ UNCHANGED <<inbox, met, open, session, line>>
BY DEF Silence, board

LEMMA VerifyTimeoutKeeps ==
    ASSUME BridgeInv, NEW early \in BOOLEAN, verify_timeout(early)
    PROVE  BridgeInv'
<1>1. /\ uplink' = Spoil(uplink) /\ doubted' = TRUE /\ call' = "idle"
      /\ pc' \in after(pc, FALSE, FALSE) /\ pc \in Calls /\ Silence(early)
  BY DEF verify_timeout, Return, BridgeInv, CallsInOrder
<1>2. pc' \in Places
  BY <1>1, WhereNext
<1> QED BY <1>1, <1>2, SilenceIs, GiveUpKeeps

\* A call given up first is followed by HELLO, which is then the one request
\* that is not late; no HELLO was on its way before it.
LEMMA CallTimeoutKeeps ==
    ASSUME BridgeInv, NEW early \in BOOLEAN, call_timeout(early)
    PROVE  BridgeInv'
<1>1. /\ call = "sent" /\ pc \in Calls
      /\ inbox = <<>> /\ greeting' = SpoilGreeting
      /\ UNCHANGED <<inbox, met, open, session, line>>
  BY SilenceIs DEF call_timeout, BridgeInv, CallsInOrder
<1>2. CASE ~(pc \in Checked /\ open)
  <2>1. /\ uplink' = Spoil(uplink) /\ doubted' = TRUE /\ call' = "idle"
        /\ pc' \in after(pc, FALSE, FALSE) \/ pc' = pc
    BY <1>2 DEF call_timeout, Return
  <2>2. pc' \in Places
    BY <1>1, <2>1, WhereNext DEF Places
  <2> QED BY <1>1, <2>1, <2>2, GiveUpKeeps
<1>3. CASE pc \in Checked /\ open
  <2>1. /\ call' = "verify" /\ uplink' = Append(Spoil(uplink), Request("hello"))
        /\ UNCHANGED <<pc, doubted>>
    BY <1>3 DEF call_timeout
  <2>2. Request("hello") \in Requests /\ Request("hello").at = "hello" /\ ~Request("hello").stale
    BY TheCalls DEF Request, Requests
  <2>3. /\ Spoil(uplink) \in Seq(Requests) /\ Len(Spoil(uplink)) = Len(uplink) /\ Len(uplink) \in Nat
        /\ \A i \in 1..Len(uplink) : Spoil(uplink)[i].at = uplink[i].at /\ Spoil(uplink)[i].stale
    BY Spoiled DEF BridgeInv, BridgeTypeOK
  <2>4. /\ uplink' \in Seq(Requests) /\ Len(uplink') = Len(uplink) + 1
        /\ \A i \in 1..Len(uplink) : uplink'[i] = Spoil(uplink)[i]
        /\ uplink'[Len(uplink) + 1] = Request("hello")
    BY <2>1, <2>2, <2>3, AppendTo
  <2>5. \A i \in DOMAIN uplink' :
          \/ i \in DOMAIN uplink /\ uplink'[i].at = uplink[i].at /\ uplink'[i].stale
          \/ i = Len(uplink') /\ uplink'[i] = Request("hello")
    BY <2>3, <2>4 DEF BridgeInv, BridgeTypeOK
  <2>6. Expected # "HELLO" /\ Expected' = "HELLO" /\ Command["hello"] = "HELLO"
    BY <1>1, <1>3, <2>1, TheCalls DEF Expected
  <2>7. ~doubted => greeting = {}
    BY <1>1, <2>6 DEF BridgeInv, NothingLate, FreshGreetingIsLast
  <2>8. /\ greeting' \in SUBSET Greetings
        /\ \A g \in greeting' : g.stale /\ greeting' = {g}
        /\ greeting = {} => greeting' = {}
    BY <1>1, GreetingSpoiled
  <2>9. DOMAIN inbox' = {}
    BY <1>1
  <2>10. BridgeTypeOK'
    BY <1>1, <2>1, <2>4, <2>8 DEF BridgeInv, BridgeTypeOK
  <2>11. CallsInOrder' /\ SessionsAreKnown' /\ NoticesHold' /\ HintIsNoFact'
    BY <1>1, <1>3, <2>1, <2>9 DEF BridgeInv, CallsInOrder, SessionsAreKnown, NoticesHold, HintIsNoFact
  <2>12. FreshRequestIsLast'
    BY <2>1, <2>2, <2>5, <2>6 DEF FreshRequestIsLast
  <2>13. FreshGreetingIsLast' /\ FreshReplyIsLast'
    BY <2>8, <2>9 DEF FreshGreetingIsLast, FreshReplyIsLast
  <2>14. NothingLate'
    <3>1. ~doubted => \A i \in DOMAIN uplink : Command[uplink[i].at] # "HELLO"
      BY <1>1, <2>6 DEF BridgeInv, NothingLate, FreshRequestIsLast
    <3> QED BY <2>1, <2>2, <2>5, <2>7, <2>8, <2>9, <3>1 DEF NothingLate
  <2> QED BY <2>10, <2>11, <2>12, <2>13, <2>14 DEF BridgeInv
<1> QED BY <1>2, <1>3

----------------------------------------------------------------------------
(* The theorems.                                                           *)

LEMMA BridgeStep == BridgeInv /\ [BridgeNext]_bridgeVars => BridgeInv'
<1>1. ASSUME BridgeInv, UNCHANGED bridgeVars PROVE BridgeInv'
  BY <1>1 DEF bridgeVars, host, device, board, BridgeInv, BridgeTypeOK, CallsInOrder, SessionsAreKnown,
       FreshRequestIsLast, FreshGreetingIsLast, FreshReplyIsLast, NoticesHold,
       NothingLate, HintIsNoFact, Expected
<1>2. ASSUME BridgeInv, Driver PROVE BridgeInv'
  BY <1>2, BeginKeeps, OtherKeeps, CallAnsweredKeeps, GoneKeeps, VerifyAnsweredKeeps, WaitKeeps,
     DrainKeeps, CallTimeoutKeeps, VerifyTimeoutKeeps DEF Driver
<1>3. ASSUME BridgeInv, Late PROVE BridgeInv'
  BY <1>3, CallTimeoutKeeps, VerifyTimeoutKeeps DEF Late
<1>4. ASSUME BridgeInv, Board PROVE BridgeInv'
  BY <1>4, HandleKeeps, GreetKeeps DEF Board
<1> QED BY <1>1, <1>2, <1>3, <1>4, TransmitKeeps, CloseKeeps, EdgesKeep, ChipKeeps, RestartKeeps
        DEF BridgeNext

\* The order of the cable: whatever the driver calls and gives up, and
\* whenever the board restarts or the port closes, a request, a greeting or a
\* reply of the call that waits has nothing behind it (BridgeInv).
THEOREM BridgeInvariance == BridgeSpec => []BridgeInv
<1>1. BridgeInit => BridgeInv
  BY Initially
<1> QED BY <1>1, BridgeStep, PTL DEF BridgeSpec

\* Link::call and call_checked, bridge.rs: unless a given-up call was never
\* followed by an answer, what waits for an answer meets no earlier one.
THEOREM NoEarlierAnswer == BridgeSpec => []AnswersAreCurrent
<1>1. BridgeInv => AnswersAreCurrent
  BY DEF BridgeInv, NothingLate, AnswersAreCurrent
<1> QED BY <1>1, BridgeInvariance, PTL

\* wait_for_activity, bridge.rs: an interrupt is serviced on the level of the
\* line, which nothing but the driver's own later calls makes fall.
THEOREM ServicedOnTheLevel == BridgeSpec => []HintIsNoFact
<1>1. BridgeInv => HintIsNoFact
  BY DEF BridgeInv
<1> QED BY <1>1, BridgeInvariance, PTL
=============================================================================
