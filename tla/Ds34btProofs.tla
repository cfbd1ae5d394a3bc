---------------------------- MODULE Ds34btProofs ----------------------------
(***************************************************************************)
(* Machine-checked proofs about Ds34bt, for any pads, slots and connection *)
(* handles, and any number of requests, insertions and faults.             *)
(***************************************************************************)
EXTENDS Ds34bt, WellFoundedInduction, TLAPS

-----------------------------------------------------------------------------
(* The inductive invariant.                                                *)

(* Nothing is going on before the adapter is set up.                       *)
Quiet == boot # "configured" => hci = {} /\ \A h \in Handles : link[h] = NoPad

(* An item of the adapter names a pad, a handle or a link.                 *)
Shape ==
    \A e \in hci :
        /\ e.t \in {"CONNECT_REQUEST", "up"} => e.pad \in Pads /\ e = OfPad(e.t, e.pad)
        /\ e.t = "down" => e.handle \in Handles /\ e = OfHandle("down", e.handle)
        /\ e.t \in {"CONNECT_COMPLETE", "DISCONN_COMPLETE"} =>
               e.pad \in Pads /\ e.handle \in Handles /\ e = OfLink(e.t, e.pad, e.handle)

(* What the adapter reports is true of its links.                          *)
Reports ==
    \A e \in hci :
        /\ e.t \in {"CONNECT_REQUEST", "up"} => ~Linked(e.pad)
        /\ e.t = "CONNECT_COMPLETE" => link[e.handle] = e.pad
        /\ e.t = "down" => link[e.handle] # NoPad
        /\ e.t = "DISCONN_COMPLETE" => link[e.handle] = NoPad /\ ~Linked(e.pad)

(* A pad has one link at a time, and asks for the next one when the end of *)
(* the last has been reported.                                             *)
OneLink ==
    /\ \A g, h \in Handles : link[g] = link[h] /\ link[g] # NoPad => g = h
    /\ \A e, f \in hci :
           /\ e.t = "CONNECT_REQUEST" /\ f.t = "up" => e.pad # f.pad
           /\ e.t \in {"CONNECT_REQUEST", "up"} /\ f.t = "DISCONN_COMPLETE" => e.pad # f.pad

(* The handle of a slot is that of a link whose end has not been reported; *)
(* no slot holds the handle of a link that has not been reported itself.   *)
HandleLive ==
    /\ \A i \in Slots : slot[i].handle # NoHandle =>
           link[slot[i].handle] # NoPad \/ EndDue(slot[i].handle)
    /\ \A e \in hci : e.t = "CONNECT_COMPLETE" => SlotsOn(e.handle) = {}

(* A running slot has a handle.                                            *)
RunningHeld == ~torn => \A i \in Slots : IsRunning(i) => slot[i].handle # NoHandle

(* A slot with a handle has the address of the pad behind it.              *)
Owner ==
    ~taken =>
        /\ \A i \in Slots, h \in Handles :
               slot[i].handle = h /\ link[h] # NoPad => slot[i].bdaddr = link[h]
        /\ \A i \in Slots, e \in hci :
               e.t = "DISCONN_COMPLETE" /\ slot[i].handle = e.handle => slot[i].bdaddr = e.pad

(* An accepted pad has a slot until its link is reported, and the link has *)
(* one from then on.                                                       *)
Awaited ==
    ~taken =>
        /\ \A e \in hci : e.t \in {"up", "CONNECT_COMPLETE"} => SlotsOf(e.pad) # {}
        /\ \A h \in Handles : link[h] # NoPad =>
               \/ SlotsOn(h) # {}
               \/ \E e \in hci : e.t = "CONNECT_COMPLETE" /\ e.handle = h

(* How slots, links and reports fit together.                              *)
Struct ==
    /\ Quiet /\ Shape /\ Reports /\ OneLink /\ HandleLive /\ OneSlotPerLink /\ RunningHeld
    /\ Owner /\ Awaited

(* The inductive invariant.                                                *)
IInv == TypeOK /\ Struct

-----------------------------------------------------------------------------
(* What the operators of the model return.                                 *)

(* A slot, a command of the driver, the channels of a pad.                 *)
SlotRecs == [handle : Handles \cup {NoHandle}, bdaddr : Pads \cup {NoPad},
             type : Types, fake : BOOLEAN, status : SUBSET Flags,
             scid : [Channels -> Pads \cup {NoPad}]]

Cmds == [t : {"ConnReq", "ConnResp", "CfgReq", "DiscReq"}, ch : Channels, base : Types,
         dst : Pads \cup {NoPad}]

Ends == [Channels -> Types \cup {"closed", "asked"}]
PadStates == [chan : Ends, out : Seq(Packets)]

(* The first of a set of slots or handles is one of them.                  *)
LEMMA FirstIn ==
    ASSUME NEW S, S \subseteq Nat, S # {}
    PROVE  First(S) \in S
<1> DEFINE R == OpToRel(<, Nat)
<1>1. \E x \in S : \A y \in S : ~(<<y, x>> \in R)
  BY WFMin, NatLessThanWellFounded
<1>2. \A x, y \in Nat : y < x => <<y, x>> \in R
  BY DEF OpToRel
<1> HIDE DEF R
<1>3. PICK x \in S : \A y \in S : ~(<<y, x>> \in R)
  BY <1>1
<1>4. ASSUME NEW y \in S PROVE x <= y
  <2>1. x \in Nat /\ y \in Nat
    OBVIOUS
  <2>2. ~(y < x)
    BY <1>2, <1>3, <2>1
  <2> QED BY <2>1, <2>2
<1>5. \E x0 \in S : \A y \in S : x0 <= y
  BY <1>4
<1> QED BY <1>5 DEF First, Min

(* ds34pad_clear leaves a slot without pad, link and status.               *)
LEMMA ClearFacts ==
    ASSUME NEW s \in SlotRecs
    PROVE  /\ Clear(s) \in SlotRecs
           /\ Clear(s).handle = NoHandle /\ Clear(s).bdaddr = NoPad /\ Clear(s).status = {}
<1>1. /\ "DS3" \in Types /\ {} \in SUBSET Flags
      /\ [c \in Channels |-> NoPad] \in [Channels -> Pads \cup {NoPad}]
  BY DEF Types
<1>2. Clear(s) \in SlotRecs
  BY <1>1, Zenon DEF Clear, SlotRecs
<1> QED BY <1>2 DEF Clear, SlotRecs

(* A slot of the driver before the first insertion of the adapter.         *)
LEMMA FreshFacts ==
    Fresh \in SlotRecs /\ Fresh.handle = NoHandle /\ Fresh.bdaddr = NoPad /\ Fresh.status = {}
<1>1. /\ "DS3" \in Types /\ {} \in SUBSET Flags
      /\ [c \in Channels |-> NoPad] \in [Channels -> Pads \cup {NoPad}]
  BY DEF Types
<1> QED BY <1>1 DEF Fresh, SlotRecs

(* pad_status_set and pad_status_clear touch the status only.              *)
LEMMA StatusFacts ==
    ASSUME NEW s \in SlotRecs, NEW st \in SUBSET Flags
    PROVE  LET r == [s EXCEPT !.status = st] IN
           r \in SlotRecs /\ r.handle = s.handle /\ r.bdaddr = s.bdaddr /\ r.status = st
<1>1. [s EXCEPT !.status = st] \in SlotRecs
  BY Zenon DEF SlotRecs
<1> QED BY <1>1 DEF SlotRecs

(* An accepted pad gets the slot, whose handle stays.                      *)
LEMMA AcceptFacts ==
    ASSUME NEW s \in SlotRecs, NEW p \in Pads
    PROVE  LET r == Accept(s, p) IN
           /\ r \in SlotRecs /\ r.handle = s.handle /\ r.bdaddr = p
           /\ r.status \subseteq s.status /\ "RUNNING" \notin r.status
<1> DEFINE st == s.status \ {"CONNECTED", "RUNNING", "DISCONNECTING"}
           f == p \notin GenuinePads
<1>1. f \in BOOLEAN
  BY Zenon
<1>2. st \in SUBSET Flags /\ st \subseteq s.status /\ "RUNNING" \notin st
  BY DEF SlotRecs
<1>3. Accept(s, p) = [s EXCEPT !.bdaddr = p, !.fake = f, !.status = st]
  BY DEF Accept, SlotRecs
<1> HIDE DEF st, f
<1>4. Accept(s, p) \in SlotRecs
  BY <1>1, <1>2, <1>3, Zenon DEF SlotRecs
<1> QED BY <1>2, <1>3, <1>4 DEF SlotRecs

(* The name of a pad changes its type only.                                *)
LEMMA SetDS4Facts ==
    ASSUME NEW s \in SlotRecs
    PROVE  LET r == SetDS4(s) IN
           /\ r \in SlotRecs /\ r.handle = s.handle /\ r.bdaddr = s.bdaddr
           /\ r.status = s.status
<1>1. "DS4" \in Types /\ FALSE \in BOOLEAN
  BY DEF Types
<1>4. SetDS4(s) \in SlotRecs
  BY <1>1, Zenon DEF SlotRecs, SetDS4
<1> QED BY <1>4 DEF SlotRecs, SetDS4

(* CONNECT_COMPLETE gives the slot a handle.                               *)
LEMMA HoldFacts ==
    ASSUME NEW s \in SlotRecs, NEW h \in Handles
    PROVE  LET r == Hold(s, h) IN
           /\ r \in SlotRecs /\ r.handle = h /\ r.bdaddr = s.bdaddr
           /\ r.status = s.status \cup {"CONNECTED"}
<1> DEFINE st == s.status \cup {"CONNECTED"}
<1>2. st \in SUBSET Flags
  BY DEF SlotRecs, Flags
<1>3. Hold(s, h) = [s EXCEPT !.handle = h, !.status = st]
  BY DEF Hold, SlotRecs
<1> HIDE DEF st
<1>4. Hold(s, h) \in SlotRecs
  BY <1>2, <1>3, Zenon DEF SlotRecs
<1> QED BY <1>2, <1>3, <1>4 DEF SlotRecs, st

(* The endpoint of a channel is stored in the slot.                        *)
LEMMA ScidFacts ==
    ASSUME NEW s \in SlotRecs, NEW c \in Channels, NEW q \in Pads
    PROVE  LET r == [s EXCEPT !.scid[c] = q] IN
           r \in SlotRecs /\ r.handle = s.handle /\ r.bdaddr = s.bdaddr /\ r.status = s.status
<1> DEFINE sc == [s.scid EXCEPT ![c] = q]
<1>1. sc \in [Channels -> Pads \cup {NoPad}]
  BY DEF SlotRecs
<1>2. [s EXCEPT !.scid[c] = q] = [s EXCEPT !.scid = sc]
  OBVIOUS
<1> HIDE DEF sc
<1>3. [s EXCEPT !.scid = sc] \in SlotRecs
  BY <1>1, Zenon DEF SlotRecs
<1> QED BY <1>2, <1>3 DEF SlotRecs

(* What the driver sends is a command.                                     *)
LEMMA CmdFacts ==
    ASSUME NEW t \in {"ConnReq", "ConnResp", "CfgReq", "DiscReq"}, NEW ch \in Channels,
           NEW base \in Types, NEW dst \in Pads \cup {NoPad}
    PROVE  /\ Cmd(t, ch, base, dst) \in Cmds
           /\ <<Cmd(t, ch, base, dst)>> \in Seq(Cmds)
<1>1. Cmd(t, ch, base, dst) \in Cmds
  BY Zenon DEF Cmd, Cmds
<1> QED BY <1>1

(* What a pad sends is a packet.                                           *)
LEMMA PktFacts ==
    ASSUME NEW t \in {"ConnReq", "ConnResp", "CfgResp", "DiscReq", "DiscResp", "Report"},
           NEW ch \in Channels, NEW base \in Types, NEW p \in Pads
    PROVE  Pkt(t, ch, base, p) \in Packets
  BY Zenon DEF Pkt, Packets

\* What L2CAP_event_task may return.
TaskOk(s, r) ==
    /\ r.slot \in SlotRecs /\ r.cmds \in Seq(Cmds) /\ r.close \in BOOLEAN
    /\ r.slot.handle = s.handle /\ r.slot.bdaddr = s.bdaddr

(* A result of L2CAP_event_task put together from its parts.               *)
LEMMA ResultFacts ==
    ASSUME NEW s, NEW r \in SlotRecs, NEW cmds \in Seq(Cmds), NEW close \in BOOLEAN,
           r.handle = s.handle, r.bdaddr = s.bdaddr
    PROVE  TaskOk(s, Result(r, cmds, close))
  BY DEF TaskOk, Result

(* L2CAP_event_task keeps the handle and the address of the slot, whatever the*)
(* packet.                                                                 *)
LEMMA TaskFacts ==
    ASSUME NEW s \in SlotRecs, NEW m \in Packets
    PROVE  TaskOk(s, L2CAP_event_task(s, m))
<1> DEFINE mine == m.base = s.type
<1>1. /\ m.ch \in Channels /\ m.pad \in Pads /\ s.type \in Types
      /\ s.scid["ctrl"] \in Pads \cup {NoPad} /\ s.scid["intr"] \in Pads \cup {NoPad}
      /\ "ctrl" \in Channels /\ "intr" \in Channels /\ s.status \in SUBSET Flags
      /\ m.pad \in Pads \cup {NoPad} /\ NoPad \in Pads \cup {NoPad}
      /\ "RUNNING" \in Flags /\ "DISCONNECTING" \in Flags
      /\ <<>> \in Seq(Cmds)
  BY DEF Packets, SlotRecs, Channels, Flags
<1>2. ASSUME NEW f \in Flags, NEW cmds \in Seq(Cmds), NEW close \in BOOLEAN
      PROVE  TaskOk(s, Result(SetStatus(s, f), cmds, close))
  <2>1. s.status \cup {f} \in SUBSET Flags
    BY <1>1
  <2>2. /\ SetStatus(s, f) \in SlotRecs
        /\ SetStatus(s, f).handle = s.handle /\ SetStatus(s, f).bdaddr = s.bdaddr
    BY <2>1, StatusFacts DEF SetStatus
  <2> QED BY <2>2, ResultFacts
<1>3. CASE m.t = "ConnReq"
  <2> DEFINE c1 == Cmd("ConnResp", m.ch, s.type, m.pad)
             c2 == Cmd("CfgReq", m.ch, s.type, m.pad)
  <2>1. c1 \in Cmds /\ c2 \in Cmds
    BY <1>1, CmdFacts
  <2> HIDE DEF c1, c2
  <2>2. <<c1, c2>> \in Seq(Cmds)
    BY <2>1
  <2>3. TaskOk(s, Result([s EXCEPT !.scid[m.ch] = m.pad], <<c1, c2>>, FALSE))
    BY <1>1, <2>2, ScidFacts, ResultFacts
  <2> QED BY <1>3, <2>3, Zenon DEF L2CAP_event_task, c1, c2
<1>4. CASE m.t = "ConnResp" /\ mine
  <2> DEFINE c == Cmd("CfgReq", m.ch, s.type, m.pad)
  <2>1. c \in Cmds
    BY <1>1, CmdFacts
  <2> HIDE DEF c
  <2>2. <<c>> \in Seq(Cmds)
    BY <2>1
  <2>3. TaskOk(s, Result([s EXCEPT !.scid[m.ch] = m.pad], <<c>>, FALSE))
    BY <1>1, <2>2, ScidFacts, ResultFacts
  <2> QED BY <1>4, <2>3, Zenon DEF L2CAP_event_task, c
<1>5. CASE m.t = "CfgResp" /\ mine /\ m.ch = "ctrl"
  <2>1. TaskOk(s, Result(s, <<Cmd("ConnReq", "intr", s.type, NoPad)>>, FALSE))
    BY <1>1, CmdFacts, ResultFacts
  <2> QED BY <1>5, <2>1 DEF L2CAP_event_task
<1>6. CASE m.t = "CfgResp" /\ mine /\ m.ch = "intr"
  <2>1. TaskOk(s, Result(SetStatus(s, "RUNNING"), <<>>, FALSE))
    BY <1>1, <1>2
  <2> QED BY <1>6, <2>1 DEF L2CAP_event_task
<1>7. CASE m.t = "DiscReq" /\ mine
  <2>1. TaskOk(s, Result(SetStatus(s, "DISCONNECTING"), <<>>, FALSE))
    BY <1>1, <1>2
  <2> QED BY <1>7, <2>1 DEF L2CAP_event_task
<1>8. CASE m.t = "DiscResp" /\ m.ch = "ctrl" /\ s.scid["ctrl"] = m.pad
  <2>1. TaskOk(s, Result(SetStatus(s, "DISCONNECTING"), <<>>, TRUE))
    BY <1>1, <1>2
  <2> QED BY <1>8, <2>1 DEF L2CAP_event_task
<1>9. CASE m.t = "DiscResp" /\ m.ch = "intr" /\ s.scid["intr"] = m.pad
  <2>1. <<Cmd("DiscReq", "ctrl", s.type, s.scid["ctrl"])>> \in Seq(Cmds)
    BY <1>1, CmdFacts
  <2>2. TaskOk(s, Result(SetStatus(s, "DISCONNECTING"),
                         <<Cmd("DiscReq", "ctrl", s.type, s.scid["ctrl"])>>, FALSE))
    BY <1>1, <1>2, <2>1
  <2> QED BY <1>9, <2>2 DEF L2CAP_event_task
<1>10. CASE /\ m.t # "ConnReq" /\ ~(m.t = "ConnResp" /\ mine)
            /\ ~(m.t = "CfgResp" /\ mine /\ m.ch = "ctrl")
            /\ ~(m.t = "CfgResp" /\ mine /\ m.ch = "intr")
            /\ ~(m.t = "DiscReq" /\ mine)
            /\ ~(m.t = "DiscResp" /\ m.ch = "ctrl" /\ s.scid["ctrl"] = m.pad)
            /\ ~(m.t = "DiscResp" /\ m.ch = "intr" /\ s.scid["intr"] = m.pad)
  <2>1. TaskOk(s, Result(s, <<>>, FALSE))
    BY <1>1, ResultFacts
  <2> QED BY <1>10, <2>1 DEF L2CAP_event_task
<1> QED BY <1>3, <1>4, <1>5, <1>6, <1>7, <1>8, <1>9, <1>10

(* So does the rest of l2cap_event_cb.                                     *)
LEMMA AfterFacts ==
    ASSUME NEW s \in SlotRecs, NEW r, TaskOk(s, r)
    PROVE  TaskOk(s, AfterPacket(r))
<1> DEFINE t  == [r.slot EXCEPT !.status = @ \ {"DISCONNECT_REQUEST"}]
           cd == Cmd("DiscReq", "intr", r.slot.type, r.slot.scid["intr"])
<1>1. /\ r.slot \in SlotRecs /\ r.cmds \in Seq(Cmds) /\ r.close \in BOOLEAN
      /\ r.slot.handle = s.handle /\ r.slot.bdaddr = s.bdaddr
  BY DEF TaskOk
<1>2. /\ r.slot.status \ {"DISCONNECT_REQUEST"} \in SUBSET Flags /\ r.slot.type \in Types
      /\ r.slot.scid["intr"] \in Pads \cup {NoPad} /\ "intr" \in Channels
  BY <1>1 DEF SlotRecs, Channels
<1>3. t \in SlotRecs /\ t.handle = s.handle /\ t.bdaddr = s.bdaddr
  BY <1>1, <1>2, StatusFacts
<1>4. cd \in Cmds
  BY <1>2, CmdFacts
<1> HIDE DEF t, cd
<1>5. Append(r.cmds, cd) \in Seq(Cmds)
  BY <1>1, <1>4
<1>6. /\ TaskOk(s, Result(t, r.cmds, TRUE))
      /\ TaskOk(s, Result(t, Append(r.cmds, cd), r.close))
  BY <1>1, <1>3, <1>5, ResultFacts
<1>7. \/ AfterPacket(r) = r \/ AfterPacket(r) = Result(t, r.cmds, TRUE)
      \/ AfterPacket(r) = Result(t, Append(r.cmds, cd), r.close)
  BY Zenon DEF AfterPacket, t, cd
<1> QED BY <1>6, <1>7

(* A pad answers a command with packets and a state of its channels.       *)
LEMMA PadReplyFacts ==
    ASSUME NEW p \in Pads, NEW st \in PadStates, NEW m \in Cmds
    PROVE  PadReply(p, st, m) \in PadStates
<1> DEFINE own == m.dst = p /\ st.chan[m.ch] \in Types
           P(t, base) == Append(st.out, Pkt(t, m.ch, base, p))
           C(x) == [st.chan EXCEPT ![m.ch] = x]
<1>1. /\ m.ch \in Channels /\ m.base \in Types /\ st.chan \in Ends /\ st.out \in Seq(Packets)
      /\ m.t \in {"ConnReq", "ConnResp", "CfgReq", "DiscReq"}
  BY DEF Cmds, PadStates
<1>2. C(m.base) \in Ends /\ C("closed") \in Ends
  BY <1>1 DEF Ends
<1>3. P("ConnResp", m.base) \in Seq(Packets)
  <2>1. Pkt("ConnResp", m.ch, m.base, p) \in Packets
    BY <1>1, PktFacts
  <2> QED BY <1>1, <2>1
<1>4. ASSUME own
      PROVE  /\ P("CfgResp", st.chan[m.ch]) \in Seq(Packets)
             /\ P("DiscResp", st.chan[m.ch]) \in Seq(Packets)
  <2>1. /\ Pkt("CfgResp", m.ch, st.chan[m.ch], p) \in Packets
        /\ Pkt("DiscResp", m.ch, st.chan[m.ch], p) \in Packets
    BY <1>1, <1>4, PktFacts
  <2> QED BY <1>1, <2>1
<1>5. ASSUME NEW c \in Ends, NEW o \in Seq(Packets)
      PROVE  [chan |-> c, out |-> o] \in PadStates
  BY <1>5, Zenon DEF PadStates
<1>6. CASE m.t = "ConnReq"
  <2>1. PadReply(p, st, m) = [chan |-> C(m.base), out |-> P("ConnResp", m.base)]
    BY <1>6, Zenon DEF PadReply
  <2> HIDE DEF C, P
  <2> QED BY <1>2, <1>3, <1>5, <2>1
<1>7. CASE m.t = "ConnResp"
  <2>1. PadReply(p, st, m) = [st EXCEPT !.chan[m.ch] = m.base]
    BY <1>7 DEF PadReply
  <2>2. [st EXCEPT !.chan[m.ch] = m.base] = [st EXCEPT !.chan = C(m.base)]
    OBVIOUS
  <2> HIDE DEF C
  <2>3. [st EXCEPT !.chan = C(m.base)] \in PadStates
    BY <1>2, Zenon DEF PadStates
  <2> QED BY <2>1, <2>2, <2>3
<1>8. CASE m.t = "CfgReq" /\ own
  <2>1. PadReply(p, st, m) = [st EXCEPT !.out = P("CfgResp", st.chan[m.ch])]
    BY <1>8 DEF PadReply
  <2>2. P("CfgResp", st.chan[m.ch]) \in Seq(Packets)
    BY <1>4, <1>8
  <2> HIDE DEF P
  <2>3. [st EXCEPT !.out = P("CfgResp", st.chan[m.ch])] \in PadStates
    BY <2>2, Zenon DEF PadStates
  <2> QED BY <2>1, <2>3
<1>9. CASE m.t = "DiscReq" /\ own
  <2>1. PadReply(p, st, m) = [chan |-> C("closed"), out |-> P("DiscResp", st.chan[m.ch])]
    BY <1>9 DEF PadReply
  <2>2. P("DiscResp", st.chan[m.ch]) \in Seq(Packets)
    BY <1>4, <1>9
  <2> HIDE DEF C, P
  <2> QED BY <1>2, <1>5, <2>1, <2>2
<1>10. CASE m.t \in {"CfgReq", "DiscReq"} /\ ~own
  <2>1. PadReply(p, st, m) = st
    BY <1>10 DEF PadReply
  <2> QED BY <2>1
<1> QED BY <1>1, <1>6, <1>7, <1>8, <1>9, <1>10

(* So it does with the commands of a callback.                             *)
LEMMA PadRepliesFacts ==
    ASSUME NEW p \in Pads, NEW st \in PadStates, NEW cmds \in Seq(Cmds)
    PROVE  PadReplies(p, st, cmds) \in PadStates
<1> DEFINE A(k, s) == IF k <= Len(cmds) THEN PadReply(p, s, cmds[k]) ELSE s
<1>1. ASSUME NEW k \in {1, 2, 3}, NEW s \in PadStates PROVE A(k, s) \in PadStates
  <2>1. k <= Len(cmds) => cmds[k] \in Cmds
    OBVIOUS
  <2> QED BY <2>1, PadReplyFacts
<1>2. PadReplies(p, st, cmds) = A(3, A(2, A(1, st)))
  BY DEF PadReplies
<1> HIDE DEF A
<1>3. A(1, st) \in PadStates
  BY <1>1
<1>4. A(2, A(1, st)) \in PadStates
  BY <1>1, <1>3
<1> QED BY <1>1, <1>2, <1>4

\* The packets of the adapter and the channels of the pads have their type.
AclOk  == acl \in [Handles -> Seq(Packets)]
ChanOk == chan \in [Pads -> Ends]

(* Sending commands keeps the types of packets and channels.               *)
LEMMA CommandFacts ==
    ASSUME AclOk, ChanOk, link \in [Handles -> Pads \cup {NoPad}],
           NEW h, NEW cmds \in Seq(Cmds), NEW rest \in Seq(Packets),
           L2CAP_Command(h, cmds, rest)
    PROVE  AclOk' /\ ChanOk'
<1>1. CASE h \in Handles /\ link[h] # NoPad
  <2> DEFINE st == PadReplies(link[h], [chan |-> chan[link[h]], out |-> rest], cmds)
  <2>1. link[h] \in Pads /\ chan[link[h]] \in Ends
    BY <1>1 DEF ChanOk
  <2>2. [chan |-> chan[link[h]], out |-> rest] \in PadStates
    BY <2>1, Zenon DEF PadStates
  <2>3. st \in PadStates
    BY <2>1, <2>2, PadRepliesFacts
  <2>4. /\ chan' = [chan EXCEPT ![link[h]] = st.chan]
        /\ acl' = [acl EXCEPT ![h] = st.out]
    BY <1>1 DEF L2CAP_Command
  <2> HIDE DEF st
  <2>5. st.chan \in Ends /\ st.out \in Seq(Packets)
    BY <2>3 DEF PadStates
  <2> QED BY <2>4, <2>5, Zenon DEF AclOk, ChanOk
<1>2. CASE ~(h \in Handles /\ link[h] # NoPad)
  <2>1. chan' = chan /\ acl' = IF h \in Handles THEN [acl EXCEPT ![h] = rest] ELSE acl
    BY <1>2 DEF L2CAP_Command
  <2> QED BY <2>1, Zenon DEF AclOk, ChanOk
<1> QED BY <1>1, <1>2

-----------------------------------------------------------------------------
(* Items of the adapter, and the table of slots.                           *)

(* The fields of an item of the adapter.                                   *)
LEMMA ItemFacts ==
    /\ \A t, p : /\ OfPad(t, p).t = t /\ OfPad(t, p).pad = p /\ OfPad(t, p).handle = NoHandle
    /\ \A t, h : /\ OfHandle(t, h).t = t /\ OfHandle(t, h).pad = NoPad
                 /\ OfHandle(t, h).handle = h
    /\ \A t, p, h : /\ OfLink(t, p, h).t = t /\ OfLink(t, p, h).pad = p
                    /\ OfLink(t, p, h).handle = h
  BY DEF OfPad, OfHandle, OfLink

HciTypes == {"CONNECT_REQUEST", "CONNECT_COMPLETE", "DISCONN_COMPLETE",
             "REMOTE_NAME_COMPLETE", "up", "down"}

(* Items of the adapter have their type.                                   *)
LEMMA ItemTypes ==
    \A t \in HciTypes :
        /\ \A p \in Pads : OfPad(t, p) \in HciItems
        /\ \A h \in Handles : OfHandle(t, h) \in HciItems
        /\ \A p \in Pads, h \in Handles : OfLink(t, p, h) \in HciItems
  BY Zenon DEF OfPad, OfHandle, OfLink, HciItems, HciTypes

SlotTables == [Slots -> SlotRecs]

SlotOk == slot \in SlotTables

(* One slot is replaced.                                                   *)
LEMMA PutSlot ==
    ASSUME SlotOk, NEW i \in Slots, NEW r \in SlotRecs, slot' = [slot EXCEPT ![i] = r]
    PROVE  SlotOk' /\ \A j \in Slots : slot'[j] = IF j = i THEN r ELSE slot[j]
  BY DEF SlotOk, SlotTables

(* The type of one slot is replaced.                                       *)
LEMMA PutType ==
    ASSUME SlotOk, NEW i \in Slots, NEW v \in Types, slot' = [slot EXCEPT ![i].type = v]
    PROVE  /\ SlotOk'
           /\ \A j \in Slots : /\ slot'[j].handle = slot[j].handle
                               /\ slot'[j].bdaddr = slot[j].bdaddr
                               /\ slot'[j].status = slot[j].status
<1> DEFINE r == [slot[i] EXCEPT !.type = v]
<1>1. slot[i] \in SlotRecs
  BY DEF SlotOk, SlotTables
<1>2. r \in SlotRecs
  BY <1>1, Zenon DEF SlotRecs
<1>3. r.handle = slot[i].handle /\ r.bdaddr = slot[i].bdaddr /\ r.status = slot[i].status
  BY <1>1 DEF SlotRecs
<1>4. slot' = [slot EXCEPT ![i] = r]
  OBVIOUS
<1> HIDE DEF r
<1>5. SlotOk' /\ \A j \in Slots : slot'[j] = IF j = i THEN r ELSE slot[j]
  BY <1>2, <1>4, PutSlot
<1> QED BY <1>3, <1>5

(* The status of one slot is replaced.                                     *)
LEMMA PutStatus ==
    ASSUME SlotOk, NEW i \in Slots, NEW v \in SUBSET Flags, slot' = [slot EXCEPT ![i].status = v]
    PROVE  /\ SlotOk'
           /\ \A j \in Slots : /\ slot'[j].handle = slot[j].handle
                               /\ slot'[j].bdaddr = slot[j].bdaddr
                               /\ slot'[j].status = (IF j = i THEN v ELSE slot[j].status)
<1> DEFINE r == [slot[i] EXCEPT !.status = v]
<1>1. slot[i] \in SlotRecs
  BY DEF SlotOk, SlotTables
<1>2. r \in SlotRecs
  BY <1>1, Zenon DEF SlotRecs
<1>3. r.handle = slot[i].handle /\ r.bdaddr = slot[i].bdaddr /\ r.status = v
  BY <1>1 DEF SlotRecs
<1>4. slot' = [slot EXCEPT ![i] = r]
  OBVIOUS
<1> HIDE DEF r
<1>5. SlotOk' /\ \A j \in Slots : slot'[j] = IF j = i THEN r ELSE slot[j]
  BY <1>2, <1>4, PutSlot
<1> QED BY <1>3, <1>5

RpcOk == rpc \in [pc : {"idle", "store", "wait", "done"}, pad : Slots, loaded : SUBSET Flags]

RestOk ==
    /\ boot \in Boots /\ torn \in BOOLEAN /\ taken \in BOOLEAN
    /\ link \in [Handles -> Pads \cup {NoPad}]
    /\ pages \in 0 .. MaxPages /\ plugs \in 0 .. MaxPlugs /\ faults \in 0 .. MaxFaults

(* TypeOK, part by part.                                                   *)
LEMMA TypeParts ==
    TypeOK <=> SlotOk /\ RpcOk /\ RestOk /\ AclOk /\ ChanOk /\ hci \subseteq HciItems
  BY Zenon DEF TypeOK, SlotOk, SlotTables, SlotRecs, RpcOk, RestOk, AclOk, ChanOk, Ends

(* The same after a step.                                                  *)
LEMMA TypePartsNext ==
    TypeOK' <=> SlotOk' /\ RpcOk' /\ RestOk' /\ AclOk' /\ ChanOk' /\ hci' \subseteq HciItems
  BY Zenon DEF TypeOK, SlotOk, SlotTables, SlotRecs, RpcOk, RestOk, AclOk, ChanOk, Ends

(* A search over slots or handles that finds something finds one that fits.*)
LEMMA SearchFacts ==
    ASSUME NEW S, S \subseteq Slots \/ S \subseteq Handles, S # {}
    PROVE  First(S) \in S
<1>1. Slots \subseteq Nat
  BY SlotsAssumption DEF Slots
<1>2. Handles \subseteq Nat
  BY PadsAssumption
<1>3. S \subseteq Nat
  BY <1>1, <1>2, Zenon
<1> QED BY <1>3, FirstIn

\* Every slot is empty.
AllClear ==
    \A i \in Slots : slot[i].handle = NoHandle /\ slot[i].bdaddr = NoPad /\ slot[i].status = {}

(* bt_config_set and bt_disconnect clear every slot.                       *)
LEMMA ClearAll ==
    ASSUME SlotOk, slot' = [i \in Slots |-> Clear(slot[i])]
    PROVE  SlotOk' /\ AllClear'
<1>1. \A i \in Slots : slot[i] \in SlotRecs
  BY DEF SlotOk, SlotTables
<1>2. \A i \in Slots : /\ Clear(slot[i]) \in SlotRecs
                       /\ Clear(slot[i]).handle = NoHandle /\ Clear(slot[i]).bdaddr = NoPad
                       /\ Clear(slot[i]).status = {}
  BY <1>1, ClearFacts
<1> QED BY <1>2, Zenon DEF SlotOk, SlotTables, AllClear

-----------------------------------------------------------------------------
(* What each action does to slots, links and reports.                      *)

\* A step that opens and closes no link, and reports none: the slots keep
\* their handles and addresses.
Down(e) == \E h \in Handles : link[h] # NoPad /\ e = OfHandle("down", h)

Kept ==
    /\ link' = link /\ taken' = taken
    /\ \A i \in Slots : slot'[i].handle = slot[i].handle /\ slot'[i].bdaddr = slot[i].bdaddr
    /\ \A e \in hci' : e \in hci \/ Down(e)
    /\ \A e \in hci : e \in hci' \/ e.t \notin {"CONNECT_COMPLETE", "DISCONN_COMPLETE"}
    /\ boot' # "configured" => boot # "configured"
    /\ ~torn' => /\ ~torn
                 /\ \A i \in Slots : IsRunning(i)' => IsRunning(i) \/ slot[i].handle # NoHandle

(* bt_connect and the start-up chain leave slots and links alone.          *)
LEMMA StartEffect ==
    ASSUME TypeOK, bt_connect \/ \E ok \in BOOLEAN : CommandComplete(ok)
    PROVE  TypeOK' /\ Kept
<1> USE TypeParts, TypePartsNext
<1>1. UNCHANGED <<slot, rpc, torn, taken, hci, link, acl, chan, pages, faults>>
  BY DEF bt_connect, CommandComplete, adapter, bounds
<1>2. boot' \in Boots /\ (boot' # "configured" => boot # "configured")
  BY DEF bt_connect, CommandComplete, Boots, NextBoot
<1>3. plugs' \in 0 .. MaxPlugs
  BY BoundsAssumption DEF bt_connect, CommandComplete, bounds, RestOk
<1>4. TypeOK'
  BY <1>1, <1>2, <1>3 DEF SlotOk, RpcOk, RestOk, AclOk, ChanOk
<1>5. Kept
  BY <1>1, <1>2, Zenon DEF Kept, IsRunning
<1> QED BY <1>4, <1>5

(* bt_config_set clears the slots before the adapter has any link.         *)
LEMMA ConfigSetEffect ==
    ASSUME TypeOK, bt_config_set
    PROVE  TypeOK' /\ AllClear' /\ boot # "configured" /\ UNCHANGED <<hci, link>>
<1> USE TypeParts, TypePartsNext
<1>1. /\ boot = "set_config" /\ boot' = "reset"
      /\ UNCHANGED <<rpc, torn, taken, hci, link, acl, chan, pages, plugs, faults>>
      /\ slot' = [i \in Slots |-> Clear(slot[i])]
  BY DEF bt_config_set, adapter, bounds
<1>2. SlotOk' /\ AllClear'
  BY <1>1, ClearAll
<1>3. TypeOK'
  BY <1>1, <1>2 DEF RpcOk, RestOk, AclOk, ChanOk, Boots
<1> QED BY <1>1, <1>2, <1>3

(* bt_disconnect clears the slots, and the adapter is gone.                *)
LEMMA DisconnectEffect ==
    ASSUME TypeOK, bt_disconnect
    PROVE  TypeOK' /\ AllClear' /\ hci' = {} /\ \A h \in Handles : link'[h] = NoPad
<1> USE TypeParts, TypePartsNext
<1>1. /\ boot' = "unplugged" /\ UNCHANGED <<rpc, torn, taken, pages, plugs, faults>>
      /\ slot' = [i \in Slots |-> Clear(slot[i])]
      /\ hci' = {} /\ link' = [h \in Handles |-> NoPad] /\ acl' = [h \in Handles |-> <<>>]
      /\ chan' = [p \in Pads |-> [c \in Channels |-> "closed"]]
  BY DEF bt_disconnect, bounds
<1>2. SlotOk' /\ AllClear'
  BY <1>1, ClearAll
<1>3. link' \in [Handles -> Pads \cup {NoPad}] /\ AclOk' /\ ChanOk' /\ hci' \subseteq HciItems
  BY <1>1 DEF AclOk, ChanOk, Ends
<1>4. TypeOK'
  BY <1>1, <1>2, <1>3 DEF RpcOk, RestOk, Boots
<1> QED BY <1>1, <1>2, <1>3, <1>4

(* The driver starts with empty slots and no adapter.                      *)
LEMMA InitEffect ==
    ASSUME Init
    PROVE  TypeOK /\ AllClear /\ hci = {} /\ \A h \in Handles : link[h] = NoPad
<1> USE TypeParts
<1>1. SlotOk /\ AllClear
  BY FreshFacts DEF Init, SlotOk, SlotTables, AllClear
<1>2. 0 \in Slots
  BY SlotsAssumption DEF Slots
<1>3. RpcOk
  BY <1>2 DEF Init, RpcOk, IdleRpc
<1>4. AclOk /\ ChanOk /\ hci \subseteq HciItems
  BY DEF Init, AclOk, ChanOk, Ends
<1>5. link \in [Handles -> Pads \cup {NoPad}] /\ boot \in Boots
  BY DEF Init, Boots
<1>6. torn \in BOOLEAN /\ taken \in BOOLEAN
  BY DEF Init
<1>7. pages \in 0 .. MaxPages /\ plugs \in 0 .. MaxPlugs /\ faults \in 0 .. MaxFaults
  BY BoundsAssumption DEF Init
<1>8. RestOk
  BY <1>5, <1>6, <1>7, Zenon DEF RestOk
<1> QED BY <1>1, <1>3, <1>4, <1>8 DEF Init

\* CONNECT_REQUEST of p takes the slot i.
Accepts(p, i) ==
    /\ UNCHANGED <<boot, torn, link>>
    /\ OfPad("CONNECT_REQUEST", p) \in hci
    /\ OfPad("up", p) \in hci'
    /\ \A e \in hci' : e \in hci \ {OfPad("CONNECT_REQUEST", p)} \/ e = OfPad("up", p) \/ Down(e)
    /\ \A e \in hci : e \in hci' \/ e = OfPad("CONNECT_REQUEST", p)
    /\ \A j \in Slots : /\ slot'[j].handle = slot[j].handle
                        /\ slot'[j].bdaddr = (IF j = i THEN p ELSE slot[j].bdaddr)
                        /\ IsRunning(j)' => IsRunning(j)
    /\ ~taken' => ~taken /\ ~InUse(i)

(* CONNECT_REQUEST is ignored, or takes a slot.                            *)
LEMMA ConnectRequestEffect ==
    ASSUME TypeOK, NEW p \in Pads, ConnectRequest(p)
    PROVE  TypeOK' /\ (Kept \/ \E i \in Slots : Accepts(p, i))
<1> USE TypeParts, TypePartsNext
<1> DEFINE e == OfPad("CONNECT_REQUEST", p)
           usable == {i \in Slots : Usable(i)}
           i == First(usable)
<1>1. e \in hci /\ UNCHANGED <<boot, rpc, torn, link, acl, chan, pages, plugs, faults>>
  BY Zenon DEF ConnectRequest, bounds
<1>2. CASE usable = {}
  <2>1. hci' = hci \ {e} /\ UNCHANGED <<slot, taken>>
    BY <1>2, Zenon DEF ConnectRequest
  <2>2. TypeOK'
    BY <1>1, <2>1 DEF SlotOk, RpcOk, RestOk, AclOk, ChanOk
  <2>3. e.t = "CONNECT_REQUEST"
    BY ItemFacts
  <2>4. Kept
    BY <1>1, <2>1, <2>3 DEF Kept, IsRunning
  <2> QED BY <2>2, <2>4
<1>3. CASE usable # {}
  <2> DEFINE D == IF "CONNECTED" \in slot[i].status THEN hci_disconnect(slot[i].handle) ELSE {}
  <2>1. i \in usable
    BY <1>3, SearchFacts
  <2>2. i \in Slots
    BY <2>1
  <2>3. /\ slot' = [slot EXCEPT ![i] = Accept(slot[i], p)]
        /\ hci' = (hci \ {e}) \cup {OfPad("up", p)} \cup D
        /\ taken' = (taken \/ InUse(i))
    BY <1>3, Zenon DEF ConnectRequest
  <2>4. (~taken' => ~taken /\ ~InUse(i)) /\ taken' \in BOOLEAN
    BY <2>3, Zenon
  <2>5. \A d \in D : Down(d) /\ d \in HciItems
    BY ItemTypes DEF hci_disconnect, Down, HciTypes
  <2> HIDE DEF i, usable, D
  <2>6. slot[i] \in SlotRecs
    BY <2>2 DEF SlotOk, SlotTables
  <2>7. /\ SlotOk'
        /\ \A j \in Slots : slot'[j] = IF j = i THEN Accept(slot[i], p) ELSE slot[j]
    <3> DEFINE r == Accept(slot[i], p)
    <3>1. r \in SlotRecs
      BY <2>6, AcceptFacts
    <3> HIDE DEF r
    <3>2. slot' = [slot EXCEPT ![i] = r]
      BY <2>3 DEF r
    <3>3. SlotOk' /\ \A j \in Slots : slot'[j] = IF j = i THEN r ELSE slot[j]
      BY <2>2, <3>1, <3>2, PutSlot
    <3> QED BY <3>3 DEF r
  <2>8. \A j \in Slots : /\ slot'[j].handle = slot[j].handle
                         /\ slot'[j].bdaddr = (IF j = i THEN p ELSE slot[j].bdaddr)
                         /\ IsRunning(j)' => IsRunning(j)
    BY <2>6, <2>7, AcceptFacts DEF IsRunning
  <2>9. hci' \subseteq HciItems
    <3>1. OfPad("up", p) \in HciItems
      BY ItemTypes DEF HciTypes
    <3> QED BY <2>3, <2>5, <3>1, Zenon
  <2>10. TypeOK'
    BY <1>1, <2>4, <2>7, <2>9 DEF RpcOk, RestOk, AclOk, ChanOk
  <2>11. Accepts(p, i)
    <3>1. \A x \in hci' : x \in hci \ {e} \/ x = OfPad("up", p) \/ Down(x)
      BY <2>3, <2>5, Zenon
    <3>2. OfPad("up", p) \in hci' /\ \A x \in hci : x \in hci' \/ x = e
      BY <2>3, Zenon
    <3> QED BY <1>1, <2>4, <2>8, <3>1, <3>2 DEF Accepts
  <2> QED BY <2>2, <2>10, <2>11
<1> QED BY <1>2, <1>3

\* CONNECT_COMPLETE of the link h of p: the slot i gets it, or no slot does.
Reported(p, h) ==
    /\ UNCHANGED <<boot, torn, taken, link>>
    /\ OfLink("CONNECT_COMPLETE", p, h) \in hci
    /\ \A e \in hci' : \/ e \in hci \ {OfLink("CONNECT_COMPLETE", p, h)}
                       \/ e.t = "REMOTE_NAME_COMPLETE"
    /\ \A e \in hci : e \in hci' \/ e = OfLink("CONNECT_COMPLETE", p, h)

Gives(p, h, i) ==
    /\ slot[i].bdaddr = p
    /\ \A j \in Slots : /\ slot'[j].handle = (IF j = i THEN h ELSE slot[j].handle)
                        /\ slot'[j].bdaddr = slot[j].bdaddr
                        /\ IsRunning(j)' => IsRunning(j)

(* CONNECT_COMPLETE gives the link to a slot that waits for the pad, if any.*)
LEMMA ConnectCompleteEffect ==
    ASSUME TypeOK, NEW p \in Pads, NEW h \in Handles, ConnectComplete(p, h)
    PROVE  /\ TypeOK' /\ Reported(p, h)
           /\ ((SlotsOf(p) = {} /\ slot' = slot) \/ \E i \in Slots : Gives(p, h, i))
<1> USE TypeParts, TypePartsNext
<1> DEFINE e == OfLink("CONNECT_COMPLETE", p, h)
           i == First(SlotsOf(p))
           n == OfPad("REMOTE_NAME_COMPLETE", p)
<1>1. e \in hci /\ UNCHANGED <<boot, rpc, torn, taken, link, acl, chan, pages, plugs, faults>>
  BY Zenon DEF ConnectComplete, bounds
<1>2. n \in HciItems /\ n.t = "REMOTE_NAME_COMPLETE"
  BY ItemTypes, ItemFacts DEF HciTypes
<1>3. CASE SlotsOf(p) = {}
  <2>1. hci' = hci \ {e} /\ slot' = slot
    BY <1>3, Zenon DEF ConnectComplete
  <2>2. TypeOK'
    BY <1>1, <2>1 DEF SlotOk, RpcOk, RestOk, AclOk, ChanOk
  <2> QED BY <1>1, <1>3, <2>1, <2>2 DEF Reported
<1>4. CASE SlotsOf(p) # {}
  <2>1. i \in SlotsOf(p)
    BY <1>4, SearchFacts DEF SlotsOf
  <2>2. i \in Slots /\ slot[i].bdaddr = p
    BY <2>1 DEF SlotsOf
  <2>3. slot' = [slot EXCEPT ![i] = Hold(slot[i], h)] /\ hci' = (hci \ {e}) \cup {n}
    BY <1>4, Zenon DEF ConnectComplete
  <2> HIDE DEF i, n, e
  <2>4. slot[i] \in SlotRecs
    BY <2>2 DEF SlotOk, SlotTables
  <2>5. SlotOk' /\ \A j \in Slots : slot'[j] = IF j = i THEN Hold(slot[i], h) ELSE slot[j]
    <3> DEFINE r == Hold(slot[i], h)
    <3>1. r \in SlotRecs
      BY <2>4, HoldFacts
    <3> HIDE DEF r
    <3>2. slot' = [slot EXCEPT ![i] = r]
      BY <2>3 DEF r
    <3>3. SlotOk' /\ \A j \in Slots : slot'[j] = IF j = i THEN r ELSE slot[j]
      BY <2>2, <3>1, <3>2, PutSlot
    <3> QED BY <3>3 DEF r
  <2>6. Gives(p, h, i)
    BY <2>2, <2>4, <2>5, HoldFacts DEF IsRunning, Gives
  <2>7. hci' \subseteq HciItems
    BY <1>2, <2>3
  <2>8. TypeOK'
    BY <1>1, <2>5, <2>7 DEF RpcOk, RestOk, AclOk, ChanOk
  <2>9. Reported(p, h)
    BY <1>1, <1>2, <2>3, Zenon DEF Reported, e
  <2> QED BY <2>2, <2>6, <2>8, <2>9
<1> QED BY <1>3, <1>4

\* DISCONN_COMPLETE of the link h of p: a slot that holds it is cleared.
Ended(p, h) ==
    /\ UNCHANGED <<boot, torn, taken, link>>
    /\ OfLink("DISCONN_COMPLETE", p, h) \in hci
    /\ hci' = hci \ {OfLink("DISCONN_COMPLETE", p, h)}

Frees(h, i) ==
    /\ slot[i].handle = h
    /\ \A j \in Slots : IF j = i THEN /\ slot'[j].handle = NoHandle /\ slot'[j].bdaddr = NoPad
                                      /\ slot'[j].status = {}
                        ELSE slot'[j] = slot[j]

(* DISCONN_COMPLETE clears the slot that holds the handle, if any.         *)
LEMMA DisconnCompleteEffect ==
    ASSUME TypeOK, NEW p \in Pads, NEW h \in Handles, DisconnComplete(p, h)
    PROVE  /\ TypeOK' /\ Ended(p, h)
           /\ ((SlotsOn(h) = {} /\ slot' = slot) \/ \E i \in Slots : Frees(h, i))
<1> USE TypeParts, TypePartsNext
<1> DEFINE i == First(SlotsOn(h))
<1>1. Ended(p, h) /\ UNCHANGED <<boot, rpc, torn, taken, link, acl, chan, pages, plugs, faults>>
  BY Zenon DEF DisconnComplete, bounds, Ended
<1>2. hci' \subseteq HciItems
  BY <1>1 DEF Ended
<1>3. CASE SlotsOn(h) = {}
  <2>1. slot' = slot
    BY <1>3, Zenon DEF DisconnComplete
  <2>2. TypeOK'
    BY <1>1, <1>2, <2>1 DEF SlotOk, RpcOk, RestOk, AclOk, ChanOk
  <2> QED BY <1>1, <1>3, <2>1, <2>2
<1>4. CASE SlotsOn(h) # {}
  <2>1. i \in SlotsOn(h)
    BY <1>4, SearchFacts DEF SlotsOn
  <2>2. i \in Slots /\ slot[i].handle = h
    BY <2>1 DEF SlotsOn
  <2>3. slot' = [slot EXCEPT ![i] = Clear(slot[i])]
    BY <1>4, Zenon DEF DisconnComplete
  <2> HIDE DEF i
  <2>4. slot[i] \in SlotRecs
    BY <2>2 DEF SlotOk, SlotTables
  <2>5. SlotOk' /\ \A j \in Slots : slot'[j] = IF j = i THEN Clear(slot[i]) ELSE slot[j]
    <3> DEFINE r == Clear(slot[i])
    <3>1. r \in SlotRecs
      BY <2>4, ClearFacts
    <3> HIDE DEF r
    <3>2. slot' = [slot EXCEPT ![i] = r]
      BY <2>3 DEF r
    <3>3. SlotOk' /\ \A j \in Slots : slot'[j] = IF j = i THEN r ELSE slot[j]
      BY <2>2, <3>1, <3>2, PutSlot
    <3> QED BY <3>3 DEF r
  <2>6. Frees(h, i)
    BY <2>2, <2>4, <2>5, ClearFacts DEF Frees
  <2>7. TypeOK'
    BY <1>1, <1>2, <2>5 DEF RpcOk, RestOk, AclOk, ChanOk
  <2> QED BY <1>1, <2>2, <2>6, <2>7
<1> QED BY <1>3, <1>4

(* The name of a pad changes no handle and no address.                     *)
LEMMA RemoteNameEffect ==
    ASSUME TypeOK, NEW p \in Pads, RemoteNameComplete(p)
    PROVE  TypeOK' /\ Kept
<1> USE TypeParts, TypePartsNext
<1> DEFINE e == OfPad("REMOTE_NAME_COMPLETE", p)
           i == First(SlotsOf(p))
           h == slot[i].handle
           cmds == <<Cmd("ConnReq", "ctrl", "DS4", NoPad)>>
           rest == IF h \in Handles THEN acl[h] ELSE <<>>
<1>1. hci' = hci \ {e} /\ UNCHANGED <<boot, rpc, torn, taken, link, pages, plugs, faults>>
  BY Zenon DEF RemoteNameComplete, bounds
<1>2. e.t = "REMOTE_NAME_COMPLETE"
  BY ItemFacts
<1> HIDE DEF e
<1>3. ASSUME SlotOk', AclOk', ChanOk',
             \A j \in Slots : /\ slot'[j].handle = slot[j].handle /\ slot'[j].bdaddr = slot[j].bdaddr
                              /\ slot'[j].status = slot[j].status
      PROVE  TypeOK' /\ Kept
  <2>1. TypeOK'
    BY <1>1, <1>3 DEF RpcOk, RestOk
  <2>2. \A x \in hci : x \in hci' \/ x.t \notin {"CONNECT_COMPLETE", "DISCONN_COMPLETE"}
    BY <1>1, <1>2
  <2>3. Kept
    BY <1>1, <1>3, <2>2 DEF Kept, IsRunning
  <2> QED BY <2>1, <2>3
<1>4. CASE SlotsOf(p) = {}
  <2>1. UNCHANGED <<slot, acl, chan>>
    BY <1>4, Zenon DEF RemoteNameComplete
  <2> QED BY <1>3, <2>1 DEF SlotOk, AclOk, ChanOk
<1>5. CASE SlotsOf(p) # {} /\ p \in DS4Pads
  <2>1. i \in Slots
    BY <1>5, SearchFacts DEF SlotsOf
  <2>2. slot' = [slot EXCEPT ![i] = SetDS4(slot[i])] /\ L2CAP_Command(h, cmds, rest)
    BY <1>5, Zenon DEF RemoteNameComplete
  <2>3. cmds \in Seq(Cmds) /\ rest \in Seq(Packets)
    <3>1. "ctrl" \in Channels /\ "DS4" \in Types /\ NoPad \in Pads \cup {NoPad}
      BY DEF Channels, Types
    <3>2. cmds \in Seq(Cmds)
      BY <3>1, CmdFacts
    <3>3. rest \in Seq(Packets)
      BY DEF AclOk
    <3> QED BY <3>2, <3>3
  <2> HIDE DEF i, cmds, rest
  <2>4. AclOk' /\ ChanOk'
    BY <2>2, <2>3, CommandFacts DEF RestOk
  <2>5. slot[i] \in SlotRecs
    BY <2>1 DEF SlotOk, SlotTables
  <2> DEFINE r == SetDS4(slot[i])
  <2>6. /\ r \in SlotRecs /\ r.handle = slot[i].handle /\ r.bdaddr = slot[i].bdaddr
        /\ r.status = slot[i].status
    BY <2>5, SetDS4Facts
  <2>7. slot' = [slot EXCEPT ![i] = r]
    BY <2>2
  <2> HIDE DEF r
  <2>8. SlotOk' /\ \A j \in Slots : slot'[j] = IF j = i THEN r ELSE slot[j]
    BY <2>1, <2>6, <2>7, PutSlot
  <2> QED BY <1>3, <2>4, <2>6, <2>8
<1>6. CASE SlotsOf(p) # {} /\ p \notin DS4Pads
  <2>1. i \in Slots
    BY <1>6, SearchFacts DEF SlotsOf
  <2>2. slot' = [slot EXCEPT ![i].type = "DS3"] /\ UNCHANGED <<acl, chan>>
    BY <1>6, Zenon DEF RemoteNameComplete
  <2> HIDE DEF i
  <2>3. "DS3" \in Types
    BY DEF Types
  <2>4. /\ SlotOk'
        /\ \A j \in Slots : /\ slot'[j].handle = slot[j].handle
                            /\ slot'[j].bdaddr = slot[j].bdaddr
                            /\ slot'[j].status = slot[j].status
    BY <2>1, <2>2, <2>3, PutType
  <2> QED BY <1>3, <2>2, <2>4 DEF AclOk, ChanOk
<1> QED BY <1>4, <1>5, <1>6

(* A packet changes no handle and no address, and only a slot with a handle can*)
(* start to run.                                                           *)
LEMMA L2capEventEffect ==
    ASSUME TypeOK, NEW h \in Handles, L2capEvent(h)
    PROVE  TypeOK' /\ Kept
<1> USE TypeParts, TypePartsNext
<1> DEFINE i == First(SlotsOn(h))
           m == Head(acl[h])
           q == L2CAP_event_task(slot[i], m)
           r == AfterPacket(q)
           D == IF r.close THEN hci_disconnect(h) ELSE {}
<1>1. acl[h] # <<>> /\ UNCHANGED <<boot, rpc, torn, taken, link, pages, plugs, faults>>
  BY Zenon DEF L2capEvent, bounds
<1>2. m \in Packets /\ Tail(acl[h]) \in Seq(Packets)
  BY <1>1 DEF AclOk
<1>3. CASE SlotsOn(h) = {}
  <2>1. acl' = [acl EXCEPT ![h] = Tail(acl[h])] /\ UNCHANGED <<slot, hci, chan>>
    BY <1>3, Zenon DEF L2capEvent
  <2>2. AclOk'
    BY <1>2, <2>1, Zenon DEF AclOk
  <2>3. TypeOK'
    BY <1>1, <2>1, <2>2 DEF SlotOk, RpcOk, RestOk, ChanOk
  <2>4. Kept
    BY <1>1, <2>1 DEF Kept, IsRunning
  <2> QED BY <2>3, <2>4
<1>4. CASE SlotsOn(h) # {}
  <2>1. i \in SlotsOn(h)
    BY <1>4, SearchFacts DEF SlotsOn
  <2>2. i \in Slots /\ slot[i].handle = h
    BY <2>1 DEF SlotsOn
  <2>3. /\ slot' = [slot EXCEPT ![i] = r.slot] /\ L2CAP_Command(h, r.cmds, Tail(acl[h]))
        /\ hci' = hci \cup D
    BY <1>4, Zenon DEF L2capEvent
  <2>4. \A d \in D : Down(d) /\ d \in HciItems
    BY ItemTypes DEF hci_disconnect, Down, HciTypes
  <2> HIDE DEF D, i, m
  <2>5. slot[i] \in SlotRecs
    BY <2>2 DEF SlotOk, SlotTables
  <2>6. TaskOk(slot[i], q)
    BY <1>2, <2>5, TaskFacts
  <2> HIDE DEF q
  <2>7. TaskOk(slot[i], r)
    BY <2>5, <2>6, AfterFacts
  <2> HIDE DEF r
  <2>8. /\ r.slot \in SlotRecs /\ r.slot.handle = slot[i].handle /\ r.slot.bdaddr = slot[i].bdaddr
        /\ r.cmds \in Seq(Cmds)
    BY <2>7 DEF TaskOk
  <2>9. AclOk' /\ ChanOk'
    BY <1>2, <2>3, <2>8, CommandFacts DEF RestOk
  <2>10. SlotOk' /\ \A j \in Slots : slot'[j] = IF j = i THEN r.slot ELSE slot[j]
    BY <2>2, <2>3, <2>8, PutSlot
  <2>11. hci' \subseteq HciItems
    BY <2>3, <2>4, Zenon
  <2>12. TypeOK'
    BY <1>1, <2>9, <2>10, <2>11 DEF RpcOk, RestOk
  <2>13. slot[i].handle # NoHandle
    BY <2>2, PadsAssumption
  <2>14. \A j \in Slots : /\ slot'[j].handle = slot[j].handle /\ slot'[j].bdaddr = slot[j].bdaddr
                          /\ IsRunning(j)' => IsRunning(j) \/ slot[j].handle # NoHandle
    BY <2>8, <2>10, <2>13 DEF IsRunning
  <2>15. (\A x \in hci' : x \in hci \/ Down(x)) /\ hci \subseteq hci'
    BY <2>3, <2>4, Zenon
  <2>16. Kept
    BY <1>1, <2>14, <2>15 DEF Kept
  <2> QED BY <2>12, <2>16
<1> QED BY <1>3, <1>4

(* The number of faults stays within its bound.                            *)
LEMMA FaultCount ==
    ASSUME RestOk, Fault
    PROVE  faults' \in 0 .. MaxFaults
  BY BoundsAssumption DEF RestOk, Fault

(* A failed transfer changes no slot.                                      *)
LEMMA L2capErrorEffect ==
    ASSUME TypeOK, NEW h \in Handles, L2capError(h)
    PROVE  TypeOK' /\ Kept
<1> USE TypeParts, TypePartsNext
<1> DEFINE D == hci_disconnect(h)
           cmds == <<Cmd("DiscReq", "intr", "DS3", link[h])>>
<1>1. UNCHANGED <<boot, slot, rpc, torn, taken, link, pages, plugs>> /\ link[h] # NoPad /\ Fault
  BY Zenon DEF L2capError, driver
<1>2. \/ hci' = hci \cup D /\ UNCHANGED <<acl, chan>>
      \/ L2CAP_Command(h, cmds, acl[h]) /\ UNCHANGED hci
  BY Zenon DEF L2capError
<1>3. \A d \in D : Down(d) /\ d \in HciItems
  BY ItemTypes DEF hci_disconnect, Down, HciTypes
<1>4. cmds \in Seq(Cmds)
  <2>1. "intr" \in Channels /\ "DS3" \in Types /\ link[h] \in Pads \cup {NoPad}
    BY DEF Channels, Types, RestOk
  <2> QED BY <2>1, CmdFacts
<1> HIDE DEF D, cmds
<1>5. acl[h] \in Seq(Packets)
  BY DEF AclOk
<1>6. AclOk' /\ ChanOk'
  <2>1. CASE UNCHANGED <<acl, chan>>
    BY <2>1 DEF AclOk, ChanOk
  <2>2. CASE L2CAP_Command(h, cmds, acl[h])
    BY <1>4, <1>5, <2>2, CommandFacts DEF RestOk
  <2> QED BY <1>2, <2>1, <2>2
<1>7. hci' \subseteq HciItems /\ (\A x \in hci' : x \in hci \/ Down(x)) /\ hci \subseteq hci'
  BY <1>2, <1>3, Zenon
<1>8. TypeOK'
  BY <1>1, <1>6, <1>7, FaultCount DEF SlotOk, RpcOk, RestOk
<1>9. Kept
  BY <1>1, <1>7 DEF Kept, IsRunning
<1> QED BY <1>8, <1>9

(* ds34bt_reset changes the status of slots only; unless its store is torn, no*)
(* slot starts to run.                                                     *)
LEMMA ResetEffect ==
    ASSUME TypeOK, ds34bt_reset
    PROVE  TypeOK' /\ Kept
<1> USE TypeParts, TypePartsNext
<1>1. UNCHANGED <<boot, taken, hci, link, acl, chan, pages, plugs, faults>>
  BY DEF ds34bt_reset, ResetBegin, ResetStore, ResetWait, adapter, bounds
<1>2. ASSUME NEW i \in Slots, ResetLoad(i)
      PROVE  RpcOk'
  <2>1. slot[i].status \in SUBSET Flags
    BY DEF SlotOk, SlotTables, SlotRecs
  <2> QED BY <1>2, <2>1 DEF ResetLoad, RpcOk
<1>3. ASSUME RpcOk', UNCHANGED <<slot, torn>>
      PROVE  TypeOK' /\ Kept
  BY <1>1, <1>3 DEF SlotOk, RestOk, AclOk, ChanOk, Kept, IsRunning
<1>4. CASE ResetBegin
  <2>1. 0 \in Slots
    BY SlotsAssumption DEF Slots
  <2> QED BY <1>2, <1>3, <1>4, <2>1 DEF ResetBegin
<1>5. CASE ResetWait
  <2>1. rpc.pad \in Slots
    BY DEF RpcOk
  <2>2. CASE rpc.pad = MAX_PADS - 1
    <3>1. rpc' = [IdleRpc EXCEPT !.pc = "done"] /\ UNCHANGED <<slot, torn>>
      BY <1>5, <2>2 DEF ResetWait
    <3>2. 0 \in Slots
      BY SlotsAssumption DEF Slots
    <3>3. RpcOk'
      BY <3>1, <3>2 DEF RpcOk, IdleRpc
    <3> QED BY <1>3, <3>1, <3>3
  <2>3. CASE rpc.pad # MAX_PADS - 1
    <3>1. rpc.pad + 1 \in Slots
      BY <2>1, <2>3, SlotsAssumption DEF Slots
    <3>2. ResetLoad(rpc.pad + 1) /\ UNCHANGED <<slot, torn>>
      BY <1>5, <2>3 DEF ResetWait
    <3> QED BY <1>2, <1>3, <3>1, <3>2
  <2> QED BY <2>2, <2>3
<1>6. CASE ResetStore
  <2> DEFINE v == rpc.loaded \cup {"DISCONNECT_REQUEST"}
             i == rpc.pad
  <2>1. i \in Slots /\ v \in SUBSET Flags
    BY DEF RpcOk, Flags
  <2>2. slot' = [slot EXCEPT ![i].status = v]
    BY <1>6 DEF ResetStore
  <2>3. torn' \in BOOLEAN /\ (~torn' => ~torn /\ slot[i].status = rpc.loaded)
    BY <1>6, Zenon DEF ResetStore
  <2>4. RpcOk'
    BY <1>6 DEF ResetStore, RpcOk
  <2> HIDE DEF v, i
  <2>5. /\ SlotOk'
        /\ \A j \in Slots : /\ slot'[j].handle = slot[j].handle
                            /\ slot'[j].bdaddr = slot[j].bdaddr
                            /\ slot'[j].status = (IF j = i THEN v ELSE slot[j].status)
    BY <2>1, <2>2, PutStatus
  <2>6. TypeOK'
    BY <1>1, <2>3, <2>4, <2>5 DEF RestOk, AclOk, ChanOk
  <2>7. ~torn' => ~torn /\ \A j \in Slots : IsRunning(j)' => IsRunning(j)
    BY <2>3, <2>5 DEF IsRunning, v
  <2>8. Kept
    BY <1>1, <2>5, <2>7 DEF Kept
  <2> QED BY <2>6, <2>8
<1> QED BY <1>4, <1>5, <1>6 DEF ds34bt_reset

(* A pad without link and without pending report asks for a link.          *)
LEMMA PageEffect ==
    ASSUME TypeOK, NEW p \in Pads, Page(p)
    PROVE  /\ TypeOK' /\ UNCHANGED <<driver, link>> /\ boot = "configured"
           /\ ~Linked(p) /\ \A e \in hci : e.pad # p
           /\ hci' = hci \cup {OfPad("CONNECT_REQUEST", p)}
<1> USE TypeParts, TypePartsNext
<1>1. /\ UNCHANGED <<driver, link, acl, chan, plugs, faults>> /\ boot = "configured"
      /\ ~Linked(p) /\ \A e \in hci : e.pad # p
      /\ hci' = hci \cup {OfPad("CONNECT_REQUEST", p)}
  BY Zenon DEF Page
<1>2. pages' \in 0 .. MaxPages
  BY BoundsAssumption DEF Page, RestOk
<1>3. OfPad("CONNECT_REQUEST", p) \in HciItems
  BY ItemTypes DEF HciTypes
<1>4. TypeOK'
  <2>1. hci' \subseteq HciItems
    BY <1>1, <1>3, Zenon
  <2>2. UNCHANGED <<boot, slot, rpc, torn, taken>>
    BY <1>1 DEF driver
  <2>3. UNCHANGED <<link, acl, chan, plugs, faults>>
    BY <1>1
  <2> QED BY <1>2, <2>1, <2>2, <2>3 DEF SlotOk, RpcOk, RestOk, AclOk, ChanOk
<1> QED BY <1>1, <1>4

\* The link of p comes up on the handle h, which no link and no report uses.
Opens(p, h) ==
    /\ link[h] = NoPad /\ ~EndDue(h)
    /\ OfPad("up", p) \in hci
    /\ link' = [link EXCEPT ![h] = p]
    /\ hci' = (hci \ {OfPad("up", p)}) \cup {OfLink("CONNECT_COMPLETE", p, h)}

(* A link comes up on a free handle.                                       *)
LEMMA LinkUpEffect ==
    ASSUME TypeOK, NEW p \in Pads, LinkUp(p)
    PROVE  TypeOK' /\ UNCHANGED driver /\ \E h \in Handles : Opens(p, h)
<1> USE TypeParts, TypePartsNext
<1> DEFINE free == {h \in Handles : link[h] = NoPad /\ acl[h] = <<>> /\ ~EndDue(h)}
           h == First(free)
<1>1. /\ OfPad("up", p) \in hci /\ free # {}
      /\ UNCHANGED <<driver, acl, chan, bounds>>
      /\ link' = [link EXCEPT ![h] = p]
      /\ hci' = (hci \ {OfPad("up", p)}) \cup {OfLink("CONNECT_COMPLETE", p, h)}
  BY Zenon DEF LinkUp
<1>2. h \in free
  <2>1. free \subseteq Handles
    OBVIOUS
  <2> HIDE DEF free
  <2> QED BY <1>1, <2>1, SearchFacts
<1>3. h \in Handles /\ link[h] = NoPad /\ ~EndDue(h)
  BY <1>2
<1> HIDE DEF h, free
<1>4. Opens(p, h)
  BY <1>1, <1>3, Zenon DEF Opens
<1>5. OfLink("CONNECT_COMPLETE", p, h) \in HciItems
  BY <1>3, ItemTypes DEF HciTypes
<1>6. hci' \subseteq HciItems
  BY <1>1, <1>5, Zenon
<1>7. link' \in [Handles -> Pads \cup {NoPad}]
  BY <1>1, <1>3 DEF RestOk
<1>8. UNCHANGED <<boot, slot, rpc, torn, taken, acl, chan, pages, plugs, faults>>
  BY <1>1 DEF driver, bounds
<1>9. TypeOK'
  BY <1>6, <1>7, <1>8 DEF SlotOk, RpcOk, RestOk, AclOk, ChanOk
<1> QED BY <1>1, <1>3, <1>4, <1>9

(* A link that fails to come up changes no slot and no link.               *)
LEMMA LinkFailsEffect ==
    ASSUME TypeOK, NEW p \in Pads, LinkFails(p)
    PROVE  TypeOK' /\ Kept
<1> USE TypeParts, TypePartsNext
<1> DEFINE e == OfPad("up", p)
<1>1. /\ hci' = hci \ {e} /\ Fault
      /\ UNCHANGED <<boot, slot, rpc, torn, taken, link, acl, chan, pages, plugs>>
  BY DEF LinkFails, driver
<1>2. e.t = "up"
  BY ItemFacts
<1> HIDE DEF e
<1>3. TypeOK'
  BY <1>1, FaultCount DEF SlotOk, RpcOk, RestOk, AclOk, ChanOk
<1>4. \A x \in hci : x \in hci' \/ x.t \notin {"CONNECT_COMPLETE", "DISCONN_COMPLETE"}
  BY <1>1, <1>2
<1>5. Kept
  BY <1>1, <1>4 DEF Kept, IsRunning
<1> QED BY <1>3, <1>5

\* The link on the handle h ends.
Closes(h) ==
    /\ OfLink("CONNECT_COMPLETE", link[h], h) \notin hci
    /\ link' = [link EXCEPT ![h] = NoPad]
    /\ hci' = (hci \ {OfHandle("down", h), OfPad("REMOTE_NAME_COMPLETE", link[h])})
              \cup {OfLink("DISCONN_COMPLETE", link[h], h)}

(* A link ends, at the driver's command or by itself.                      *)
LEMMA LinkGoneEffect ==
    ASSUME TypeOK, NEW h \in Handles, link[h] # NoPad, LinkDown(h) \/ LinkLost(h)
    PROVE  TypeOK' /\ UNCHANGED driver /\ Closes(h)
<1> USE TypeParts, TypePartsNext
<1>1. /\ Closes(h) /\ UNCHANGED <<driver, acl, pages, plugs>>
      /\ chan' = [chan EXCEPT ![link[h]] = [c \in Channels |-> "closed"]]
  BY Zenon DEF LinkDown, LinkLost, LinkGone, Closes
<1>2. faults' \in 0 .. MaxFaults
  BY FaultCount DEF LinkDown, LinkLost, RestOk
<1>3. link[h] \in Pads
  BY DEF RestOk
<1>4. link' \in [Handles -> Pads \cup {NoPad}]
  BY <1>1 DEF Closes, RestOk
<1>5. [c \in Channels |-> "closed"] \in Ends
  BY DEF Ends
<1>6. ChanOk'
  BY <1>1, <1>5, Zenon DEF ChanOk
<1>7. hci' \subseteq HciItems
  <2>1. OfLink("DISCONN_COMPLETE", link[h], h) \in HciItems
    BY <1>3, ItemTypes DEF HciTypes
  <2> QED BY <1>1, <2>1, Zenon DEF Closes
<1>8. UNCHANGED <<boot, slot, rpc, torn, taken, acl, pages, plugs>>
  BY <1>1 DEF driver
<1>9. TypeOK'
  BY <1>2, <1>4, <1>6, <1>7, <1>8 DEF SlotOk, RpcOk, RestOk, AclOk
<1> QED BY <1>1, <1>9

(* What pads send changes no slot and no link.                             *)
LEMMA PadEffect ==
    ASSUME TypeOK, NEW h \in Handles,
           PadReports(h) \/ PadLeaves(h) \/ \E ch \in Channels : PadRequests(h, ch)
    PROVE  TypeOK' /\ Kept
<1> USE TypeParts, TypePartsNext
<1> DEFINE p == link[h]
<1>1. UNCHANGED <<boot, slot, rpc, torn, taken, link, pages, plugs>> /\ p # NoPad
  BY PadsAssumption DEF PadReports, PadLeaves, PadRequests, driver, bounds
<1>2. p \in Pads /\ "intr" \in Channels /\ chan[p] \in Ends /\ acl[h] \in Seq(Packets)
  BY <1>1 DEF RestOk, Channels, ChanOk, AclOk
<1>3. faults' \in 0 .. MaxFaults
  BY FaultCount DEF PadReports, PadLeaves, PadRequests, bounds, RestOk
<1>4. /\ hci' \subseteq HciItems /\ hci \subseteq hci'
      /\ \A e \in hci' : e \in hci \/ Down(e)
  <2>1. hci' = hci \/ hci' = hci \cup {OfHandle("down", h)}
    BY DEF PadReports, PadLeaves, PadRequests
  <2>2. OfHandle("down", h) \in HciItems
    BY ItemTypes DEF HciTypes
  <2>3. Down(OfHandle("down", h))
    BY <1>1 DEF Down
  <2> QED BY <2>1, <2>2, <2>3, Zenon
<1>5. AclOk' /\ ChanOk'
  <2>1. ASSUME NEW k \in Seq(Packets), acl' = [acl EXCEPT ![h] = k] PROVE AclOk'
    BY <2>1, Zenon DEF AclOk
  <2>2. ASSUME NEW k \in Ends, chan' = [chan EXCEPT ![p] = k] PROVE ChanOk'
    BY <1>2, <2>2, Zenon DEF ChanOk
  <2>3. CASE PadReports(h)
    <3>1. Pkt("Report", "intr", chan[p]["intr"], p) \in Packets
      BY <1>2, <2>3, PktFacts DEF PadReports
    <3>2. <<Pkt("Report", "intr", chan[p]["intr"], p)>> \in Seq(Packets)
      BY <3>1
    <3>3. /\ acl' = [acl EXCEPT ![h] = <<Pkt("Report", "intr", chan[p]["intr"], p)>>]
          /\ chan' = chan
      BY <2>3 DEF PadReports
    <3> QED BY <2>1, <3>2, <3>3 DEF ChanOk
  <2>4. CASE PadLeaves(h)
    <3>1. Pkt("DiscReq", "intr", chan[p]["intr"], p) \in Packets
      BY <1>2, <2>4, PktFacts DEF PadLeaves
    <3>2. <<Pkt("DiscReq", "intr", chan[p]["intr"], p)>> \in Seq(Packets)
      BY <3>1
    <3>3. /\ acl' = [acl EXCEPT ![h] = <<Pkt("DiscReq", "intr", chan[p]["intr"], p)>>]
          /\ chan' = [chan EXCEPT ![p]["intr"] = "closed"]
      BY <2>4 DEF PadLeaves
    <3>4. [chan[p] EXCEPT !["intr"] = "closed"] \in Ends
      BY <1>2 DEF Ends
    <3>5. chan' = [chan EXCEPT ![p] = [chan[p] EXCEPT !["intr"] = "closed"]]
      BY <3>3
    <3> QED BY <2>1, <2>2, <3>2, <3>3, <3>4, <3>5
  <2>5. ASSUME NEW ch \in Channels, PadRequests(h, ch) PROVE AclOk' /\ ChanOk'
    <3>1. Pkt("ConnReq", ch, "DS3", p) \in Packets
      BY <1>2, <2>5, PktFacts DEF Types
    <3>2. Append(acl[h], Pkt("ConnReq", ch, "DS3", p)) \in Seq(Packets)
      BY <1>2, <3>1
    <3>3. /\ acl' = [acl EXCEPT ![h] = Append(acl[h], Pkt("ConnReq", ch, "DS3", p))]
          /\ chan' = [chan EXCEPT ![p][ch] = "asked"]
      BY <2>5 DEF PadRequests
    <3>4. [chan[p] EXCEPT ![ch] = "asked"] \in Ends
      BY <1>2 DEF Ends
    <3>5. chan' = [chan EXCEPT ![p] = [chan[p] EXCEPT ![ch] = "asked"]]
      BY <3>3
    <3> QED BY <2>1, <2>2, <3>2, <3>3, <3>4, <3>5
  <2> QED BY <2>3, <2>4, <2>5
<1>6. TypeOK'
  BY <1>1, <1>3, <1>4, <1>5 DEF SlotOk, RpcOk, RestOk
<1>7. Kept
  BY <1>1, <1>4 DEF Kept, IsRunning
<1> QED BY <1>6, <1>7

-----------------------------------------------------------------------------
(* The inductive invariant is kept.                                        *)

(* Empty slots and an adapter without links fit together.                  *)
LEMMA ClearHolds ==
    ASSUME AllClear, hci = {}, \A h \in Handles : link[h] = NoPad
    PROVE  Struct
<1> USE PadsAssumption DEF AllClear
<1>1. Quiet /\ Shape /\ Reports /\ OneLink /\ HandleLive
  BY DEF Quiet, Shape, Reports, OneLink, HandleLive
<1>2. OneSlotPerLink /\ RunningHeld
  BY DEF OneSlotPerLink, RunningHeld, IsRunning
<1>3. Owner /\ Awaited
  BY DEF Owner, Awaited
<1> QED BY <1>1, <1>2, <1>3 DEF Struct

(* The same after a step.                                                  *)
LEMMA ClearHoldsNext ==
    ASSUME AllClear', hci' = {}, \A h \in Handles : link'[h] = NoPad
    PROVE  Struct'
<1> USE PadsAssumption DEF AllClear
<1>1. Quiet' /\ Shape' /\ Reports' /\ OneLink' /\ HandleLive'
  BY DEF Quiet, Shape, Reports, OneLink, HandleLive
<1>2. OneSlotPerLink' /\ RunningHeld'
  BY DEF OneSlotPerLink, RunningHeld, IsRunning
<1>3. Owner' /\ Awaited'
  BY DEF Owner, Awaited
<1> QED BY <1>1, <1>2, <1>3 DEF Struct

(* A step that keeps handles, addresses, links and their reports keeps the *)
(* invariant.                                                              *)
LEMMA KeptHolds ==
    ASSUME TypeOK, Struct, Kept
    PROVE  Struct'
<1>1. /\ link' = link /\ taken' = taken
      /\ \A i \in Slots : slot'[i].handle = slot[i].handle /\ slot'[i].bdaddr = slot[i].bdaddr
      /\ \A e \in hci' : e \in hci \/ Down(e)
      /\ \A e \in hci : e \in hci' \/ e.t \notin {"CONNECT_COMPLETE", "DISCONN_COMPLETE"}
      /\ boot' # "configured" => boot # "configured"
  BY DEF Kept
<1>2. \A e : Down(e) => /\ e.t = "down" /\ e.handle \in Handles /\ link[e.handle] # NoPad
                        /\ e = OfHandle("down", e.handle)
  BY ItemFacts DEF Down
<1>3. \A e \in hci' : e \in hci \/ e.t = "down"
  BY <1>1, <1>2
<1>4. \A h : EndDue(h) => EndDue(h)'
  BY <1>1 DEF EndDue
<1>5. \A h : SlotsOn(h)' = SlotsOn(h) /\ SlotsOf(h)' = SlotsOf(h)
  BY <1>1 DEF SlotsOn, SlotsOf
<1>6. \A p : Linked(p)' <=> Linked(p)
  BY <1>1 DEF Linked
<1>7. Quiet'
  BY <1>1 DEF Struct, Quiet, Down
<1>8. Shape'
  BY <1>1, <1>2 DEF Struct, Shape
<1>9. Reports'
  BY <1>1, <1>2, <1>6 DEF Struct, Reports
<1>10. OneLink'
  BY <1>1, <1>3 DEF Struct, OneLink
<1>11. HandleLive'
  BY <1>1, <1>3, <1>4, <1>5 DEF Struct, HandleLive
<1>12. OneSlotPerLink'
  BY <1>1 DEF Struct, OneSlotPerLink
<1>13. RunningHeld'
  BY <1>1 DEF Struct, RunningHeld, Kept
<1>14. Owner'
  BY <1>1, <1>3 DEF Struct, Owner
<1>15. Awaited'
  BY <1>1, <1>3, <1>5 DEF Struct, Awaited
<1> QED BY <1>7, <1>8, <1>9, <1>10, <1>11, <1>12, <1>13, <1>14, <1>15 DEF Struct

(* CONNECT_REQUEST keeps the invariant.  When the slot it takes was not in use,*)
(* no pad loses its slot; when it was, `taken' says so.                    *)
LEMMA AcceptsHolds ==
    ASSUME TypeOK, Struct, NEW p \in Pads, NEW i \in Slots, Accepts(p, i)
    PROVE  Struct'
<1> DEFINE c == OfPad("CONNECT_REQUEST", p)
           u == OfPad("up", p)
<1>1. /\ link' = link /\ boot' = boot /\ torn' = torn
      /\ \A j \in Slots : /\ slot'[j].handle = slot[j].handle
                          /\ slot'[j].bdaddr = (IF j = i THEN p ELSE slot[j].bdaddr)
                          /\ IsRunning(j)' => IsRunning(j)
      /\ c \in hci /\ u \in hci'
      /\ \A e \in hci' : e \in hci \ {c} \/ e = u \/ Down(e)
      /\ \A e \in hci : e \in hci' \/ e = c
      /\ ~taken' => ~taken /\ ~InUse(i)
  BY DEF Accepts
<1>2. /\ c.t = "CONNECT_REQUEST" /\ c.pad = p /\ u.t = "up" /\ u.pad = p
      /\ u = OfPad(u.t, u.pad)
  BY ItemFacts
<1>3. \A e : Down(e) => /\ e.t = "down" /\ e.handle \in Handles /\ link[e.handle] # NoPad
                        /\ e = OfHandle("down", e.handle)
  BY ItemFacts DEF Down
<1>16. \A e \in hci : e.t = "CONNECT_REQUEST" /\ e.pad = p => e = c
  BY DEF Struct, Shape
<1> HIDE DEF c, u
<1>4. \A e \in hci' : (e \in hci /\ e # c) \/ e = u \/ e.t = "down"
  BY <1>1, <1>3
<1>5. \A h : EndDue(h) => EndDue(h)'
  BY <1>1, <1>2 DEF EndDue
<1>6. \A h : SlotsOn(h)' = SlotsOn(h)
  BY <1>1 DEF SlotsOn
<1>17. \A q : Linked(q)' <=> Linked(q)
  BY <1>1 DEF Linked
<1>7. Quiet'
  BY <1>1 DEF Struct, Quiet
<1>8. Shape'
  BY <1>1, <1>2, <1>3 DEF Struct, Shape
<1>9. Reports'
  <2>1. ~Linked(p)
    BY <1>1, <1>2 DEF Struct, Reports
  <2> QED BY <1>1, <1>2, <1>3, <1>17, <2>1 DEF Struct, Reports
<1>10. OneLink'
  <2>1. \A g, h \in Handles : link'[g] = link'[h] /\ link'[g] # NoPad => g = h
    BY <1>1 DEF Struct, OneLink
  <2>2. \A e, f \in hci' : e.t = "CONNECT_REQUEST" /\ f.t = "up" => e.pad # f.pad
    BY <1>2, <1>4, <1>16 DEF Struct, OneLink
  <2>3. \A e, f \in hci' :
           e.t \in {"CONNECT_REQUEST", "up"} /\ f.t = "DISCONN_COMPLETE" => e.pad # f.pad
    <3>1. \A f \in hci : f.t = "DISCONN_COMPLETE" => f.pad # p
      BY <1>1, <1>2 DEF Struct, OneLink
    <3> QED BY <1>2, <1>4, <3>1 DEF Struct, OneLink
  <2> QED BY <2>1, <2>2, <2>3 DEF OneLink
<1>11. HandleLive'
  BY <1>1, <1>2, <1>4, <1>5, <1>6 DEF Struct, HandleLive
<1>12. OneSlotPerLink'
  BY <1>1 DEF Struct, OneSlotPerLink
<1>13. RunningHeld'
  BY <1>1 DEF Struct, RunningHeld
<1>14. Owner'
  <2> SUFFICES ASSUME ~taken' PROVE Owner'
    BY DEF Owner
  <2>1. ~taken /\ slot[i].handle = NoHandle
    BY <1>1 DEF InUse
  <2>2. \A j \in Slots, h \in Handles :
           slot'[j].handle = h /\ link'[h] # NoPad => slot'[j].bdaddr = link'[h]
    BY <1>1, <2>1, PadsAssumption DEF Struct, Owner
  <2>3. \A j \in Slots, e \in hci' :
           e.t = "DISCONN_COMPLETE" /\ slot'[j].handle = e.handle => slot'[j].bdaddr = e.pad
    BY <1>1, <1>2, <1>4, <2>1, PadsAssumption DEF Struct, Owner, Shape
  <2> QED BY <2>2, <2>3 DEF Owner
<1>15. Awaited'
  <2> SUFFICES ASSUME ~taken' PROVE Awaited'
    BY DEF Awaited
  <2>1. ~taken /\ \A e \in hci : e.t \in {"up", "CONNECT_COMPLETE"} => e.pad # slot[i].bdaddr
    BY <1>1 DEF InUse
  <2>2. ASSUME NEW e \in hci', e.t \in {"up", "CONNECT_COMPLETE"} PROVE SlotsOf(e.pad)' # {}
    <3>1. CASE e = u
      BY <1>1, <1>2, <3>1 DEF SlotsOf
    <3>2. CASE e \in hci
      <4>1. PICK j \in Slots : slot[j].bdaddr = e.pad
        BY <2>1, <2>2, <3>2 DEF Struct, Awaited, SlotsOf
      <4>2. j # i
        BY <2>1, <2>2, <3>2, <4>1
      <4> QED BY <1>1, <4>1, <4>2 DEF SlotsOf
    <3> QED BY <1>4, <2>2, <3>1, <3>2
  <2>3. ASSUME NEW h \in Handles, link'[h] # NoPad
        PROVE  SlotsOn(h)' # {} \/ \E e \in hci' : e.t = "CONNECT_COMPLETE" /\ e.handle = h
    BY <1>1, <1>2, <1>6, <2>1, <2>3 DEF Struct, Awaited
  <2> QED BY <2>2, <2>3 DEF Awaited
<1> QED BY <1>7, <1>8, <1>9, <1>10, <1>11, <1>12, <1>13, <1>14, <1>15 DEF Struct

(* CONNECT_COMPLETE keeps the invariant: no slot held the handle before, and*)
(* unless a slot was taken over, the one that gets it held none.           *)
LEMMA ReportedHolds ==
    ASSUME TypeOK, Struct, NEW p \in Pads, NEW h \in Handles, Reported(p, h),
           ((SlotsOf(p) = {} /\ slot' = slot) \/ \E i \in Slots : Gives(p, h, i))
    PROVE  Struct'
<1> DEFINE c == OfLink("CONNECT_COMPLETE", p, h)
<1>1. /\ link' = link /\ boot' = boot /\ torn' = torn /\ taken' = taken
      /\ c \in hci
      /\ \A e \in hci' : e \in hci \ {c} \/ e.t = "REMOTE_NAME_COMPLETE"
      /\ \A e \in hci : e \in hci' \/ e = c
  BY DEF Reported
<1>2. c.t = "CONNECT_COMPLETE" /\ c.pad = p /\ c.handle = h
  BY ItemFacts
<1>3. link[h] = p /\ SlotsOn(h) = {} /\ p # NoPad /\ h # NoHandle
  BY <1>1, <1>2, PadsAssumption DEF Struct, Reports, HandleLive
<1>4. \A e \in hci : e.t = "CONNECT_COMPLETE" /\ e.handle = h => e = c
  BY <1>3 DEF Struct, Shape, Reports
<1> HIDE DEF c
<1>5. \A e \in hci' : (e \in hci /\ e # c) \/ e.t = "REMOTE_NAME_COMPLETE"
  BY <1>1
<1>6. \A g : EndDue(g) => EndDue(g)'
  BY <1>1, <1>2 DEF EndDue
<1>7. \A q : SlotsOf(q)' = SlotsOf(q)
  BY DEF SlotsOf, Gives
<1>8. \A q : Linked(q)' <=> Linked(q)
  BY <1>1 DEF Linked
<1>9. \A j \in Slots : /\ slot'[j].handle = slot[j].handle \/ slot'[j].handle = h
                       /\ slot'[j].bdaddr = slot[j].bdaddr
                       /\ IsRunning(j)' => IsRunning(j)
  BY DEF Gives, IsRunning
<1>10. Quiet'
  BY <1>1 DEF Struct, Quiet
<1>11. Shape'
  BY <1>1 DEF Struct, Shape
<1>12. Reports'
  BY <1>1, <1>5, <1>8 DEF Struct, Reports
<1>13. OneLink'
  BY <1>1, <1>5 DEF Struct, OneLink
<1>14. HandleLive'
  <2>1. \A j \in Slots : slot'[j].handle # NoHandle =>
           link'[slot'[j].handle] # NoPad \/ EndDue(slot[j].handle)'
    BY <1>1, <1>3, <1>6, <1>9 DEF Struct, HandleLive
  <2>2. ASSUME NEW e \in hci', e.t = "CONNECT_COMPLETE" PROVE SlotsOn(e.handle)' = {}
    <3>1. e \in hci /\ e # c
      BY <1>5, <2>2
    <3>2. e.handle # h /\ SlotsOn(e.handle) = {}
      BY <1>4, <2>2, <3>1 DEF Struct, HandleLive
    <3> QED BY <1>9, <3>2 DEF SlotsOn
  <2> QED BY <2>1, <2>2 DEF HandleLive
<1>15. OneSlotPerLink'
  <2>1. CASE slot' = slot
    BY <2>1 DEF Struct, OneSlotPerLink
  <2>2. ASSUME NEW i \in Slots, Gives(p, h, i) PROVE OneSlotPerLink'
    <3>1. \A j \in Slots : slot[j].handle # h
      BY <1>3 DEF SlotsOn
    <3> QED BY <2>2, <3>1 DEF Struct, OneSlotPerLink, Gives
  <2> QED BY <2>1, <2>2
<1>16. RunningHeld'
  BY <1>1, <1>3, <1>9 DEF Struct, RunningHeld
<1>17. CASE taken
  <2>1. Owner' /\ Awaited'
    BY <1>1, <1>17 DEF Owner, Awaited
  <2> QED BY <1>10, <1>11, <1>12, <1>13, <1>14, <1>15, <1>16, <2>1 DEF Struct
<1>18. CASE ~taken
  <2>1. SlotsOf(p) # {}
    BY <1>1, <1>2, <1>18 DEF Struct, Awaited
  <2>2. PICK i \in Slots : Gives(p, h, i)
    BY <2>1
  <2>3. slot[i].bdaddr = p /\ slot'[i].handle = h
    BY <2>2 DEF Gives
  <2>4. \A j \in Slots : j # i => slot'[j].handle = slot[j].handle
    BY <2>2 DEF Gives
  <2>5. slot[i].handle = NoHandle
    <3> SUFFICES ASSUME slot[i].handle # NoHandle PROVE FALSE
      OBVIOUS
    <3> DEFINE g == slot[i].handle
    <3>1. g \in Handles
      <4>1. slot[i] \in SlotRecs
        BY TypeParts DEF SlotOk, SlotTables
      <4> QED BY <4>1 DEF SlotRecs
    <3>2. g # h
      BY <1>3 DEF SlotsOn
    <3>3. CASE link[g] # NoPad
      <4>1. link[g] = p
        BY <1>18, <2>3, <3>1, <3>3 DEF Struct, Owner
      <4> QED BY <1>3, <3>1, <3>2, <4>1 DEF Struct, OneLink
    <3>4. CASE EndDue(g)
      <4>1. PICK e \in hci : e.t = "DISCONN_COMPLETE" /\ e.handle = g
        BY <3>4 DEF EndDue
      <4>2. e.pad = p
        BY <1>18, <2>3, <4>1 DEF Struct, Owner
      <4>3. ~Linked(p)
        BY <4>1, <4>2 DEF Struct, Reports
      <4> QED BY <1>3, <4>3 DEF Linked
    <3> QED BY <3>3, <3>4 DEF Struct, HandleLive
  <2>6. Owner'
    <3>1. \A j \in Slots, g \in Handles :
           slot'[j].handle = g /\ link'[g] # NoPad => slot'[j].bdaddr = link'[g]
      BY <1>1, <1>3, <1>9, <1>18, <2>3, <2>4 DEF Struct, Owner
    <3>2. \A j \in Slots, e \in hci' :
           e.t = "DISCONN_COMPLETE" /\ slot'[j].handle = e.handle => slot'[j].bdaddr = e.pad
      <4>1. \A e \in hci : e.t = "DISCONN_COMPLETE" => e.handle # h
        BY <1>3 DEF Struct, Reports
      <4> QED BY <1>5, <1>9, <1>18, <2>3, <2>4, <4>1 DEF Struct, Owner
    <3> QED BY <3>1, <3>2 DEF Owner
  <2>7. Awaited'
    <3>1. \A e \in hci' : e.t \in {"up", "CONNECT_COMPLETE"} => SlotsOf(e.pad)' # {}
      BY <1>5, <1>7, <1>18 DEF Struct, Awaited
    <3>2. ASSUME NEW g \in Handles, link'[g] # NoPad
          PROVE  SlotsOn(g)' # {} \/ \E e \in hci' : e.t = "CONNECT_COMPLETE" /\ e.handle = g
      <4>1. CASE g = h
        BY <2>3, <4>1 DEF SlotsOn
      <4>2. CASE g # h /\ SlotsOn(g) # {}
        <5>1. PICK j \in Slots : slot[j].handle = g
          BY <4>2 DEF SlotsOn
        <5>2. j # i
          BY <2>5, <5>1, PadsAssumption
        <5> QED BY <2>4, <5>1, <5>2 DEF SlotsOn
      <4>3. CASE g # h /\ SlotsOn(g) = {}
        BY <1>1, <1>2, <1>18, <3>2, <4>3 DEF Struct, Awaited
      <4> QED BY <4>1, <4>2, <4>3
    <3> QED BY <3>1, <3>2 DEF Awaited
  <2> QED BY <1>10, <1>11, <1>12, <1>13, <1>14, <1>15, <1>16, <2>6, <2>7 DEF Struct
<1> QED BY <1>17, <1>18

(* DISCONN_COMPLETE keeps the invariant: the one slot with the handle is that of*)
(* the pad whose link has ended, and no other link of this pad is coming up.*)
LEMMA EndedHolds ==
    ASSUME TypeOK, Struct, NEW p \in Pads, NEW h \in Handles, Ended(p, h),
           ((SlotsOn(h) = {} /\ slot' = slot) \/ \E i \in Slots : Frees(h, i))
    PROVE  Struct'
<1> DEFINE c == OfLink("DISCONN_COMPLETE", p, h)
<1>1. /\ link' = link /\ boot' = boot /\ torn' = torn /\ taken' = taken
      /\ c \in hci /\ hci' = hci \ {c}
  BY DEF Ended
<1>2. c.t = "DISCONN_COMPLETE" /\ c.pad = p /\ c.handle = h
  BY ItemFacts
<1>3. link[h] = NoPad /\ ~Linked(p) /\ h # NoHandle
  BY <1>1, <1>2, PadsAssumption DEF Struct, Reports
<1> HIDE DEF c
<1>4. \A g : g # h /\ EndDue(g) => EndDue(g)'
  BY <1>1, <1>2 DEF EndDue
<1>5. \A j \in Slots : IF slot[j].handle = h
                       THEN /\ slot'[j].handle = NoHandle /\ slot'[j].bdaddr = NoPad
                            /\ slot'[j].status = {}
                       ELSE slot'[j] = slot[j]
  <2>1. CASE SlotsOn(h) = {} /\ slot' = slot
    BY <2>1 DEF SlotsOn
  <2>2. ASSUME NEW i \in Slots, Frees(h, i), NEW j \in Slots
        PROVE  IF slot[j].handle = h
               THEN /\ slot'[j].handle = NoHandle /\ slot'[j].bdaddr = NoPad
                    /\ slot'[j].status = {}
               ELSE slot'[j] = slot[j]
    <3>1. slot[j].handle = h => j = i
      BY <1>3, <2>2 DEF Struct, OneSlotPerLink, Frees
    <3> QED BY <2>2, <3>1 DEF Frees
  <2> QED BY <2>1, <2>2
<1>6. \A q : Linked(q)' <=> Linked(q)
  BY <1>1 DEF Linked
<1>7. Quiet'
  BY <1>1 DEF Struct, Quiet
<1>8. Shape'
  BY <1>1 DEF Struct, Shape
<1>9. Reports'
  BY <1>1, <1>6 DEF Struct, Reports
<1>10. OneLink'
  BY <1>1 DEF Struct, OneLink
<1>11. HandleLive'
  <2>1. \A j \in Slots : slot'[j].handle # NoHandle =>
           link'[slot'[j].handle] # NoPad \/ EndDue(slot[j].handle)'
    BY <1>1, <1>4, <1>5 DEF Struct, HandleLive
  <2>2. ASSUME NEW e \in hci', e.t = "CONNECT_COMPLETE" PROVE SlotsOn(e.handle)' = {}
    <3>1. SlotsOn(e.handle) = {} /\ e.handle \in Handles
      BY <1>1, <2>2 DEF Struct, HandleLive, Shape
    <3> QED BY <1>5, <3>1, PadsAssumption DEF SlotsOn
  <2> QED BY <2>1, <2>2 DEF HandleLive
<1>12. OneSlotPerLink'
  BY <1>5 DEF Struct, OneSlotPerLink
<1>13. RunningHeld'
  BY <1>1, <1>5 DEF Struct, RunningHeld, IsRunning
<1>14. Owner'
  <2> SUFFICES ASSUME ~taken PROVE Owner'
    BY <1>1 DEF Owner
  <2>1. \A j \in Slots, g \in Handles :
           slot'[j].handle = g /\ link'[g] # NoPad => slot'[j].bdaddr = link'[g]
    BY <1>1, <1>5, PadsAssumption DEF Struct, Owner
  <2>2. \A j \in Slots, e \in hci' :
           e.t = "DISCONN_COMPLETE" /\ slot'[j].handle = e.handle => slot'[j].bdaddr = e.pad
    BY <1>1, <1>5, PadsAssumption DEF Struct, Owner, Shape
  <2> QED BY <2>1, <2>2 DEF Owner
<1>15. Awaited'
  <2> SUFFICES ASSUME ~taken PROVE Awaited'
    BY <1>1 DEF Awaited
  <2>1. \A j \in Slots : slot[j].handle = h => slot[j].bdaddr = p
    BY <1>1, <1>2 DEF Struct, Owner
  <2>2. ASSUME NEW e \in hci', e.t \in {"up", "CONNECT_COMPLETE"} PROVE SlotsOf(e.pad)' # {}
    <3>1. e \in hci
      BY <1>1
    <3>2. e.pad # p
      <4>1. CASE e.t = "up"
        BY <1>1, <1>2, <3>1, <4>1 DEF Struct, OneLink
      <4>2. CASE e.t = "CONNECT_COMPLETE"
        BY <1>3, <3>1, <4>2 DEF Struct, Reports, Shape, Linked
      <4> QED BY <2>2, <4>1, <4>2
    <3>3. PICK j \in Slots : slot[j].bdaddr = e.pad
      BY <2>2, <3>1 DEF Struct, Awaited, SlotsOf
    <3>4. slot'[j] = slot[j]
      BY <1>5, <2>1, <3>2, <3>3
    <3> QED BY <3>3, <3>4 DEF SlotsOf
  <2>3. ASSUME NEW g \in Handles, link'[g] # NoPad
        PROVE  SlotsOn(g)' # {} \/ \E e \in hci' : e.t = "CONNECT_COMPLETE" /\ e.handle = g
    <3>1. g # h
      BY <1>1, <1>3, <2>3
    <3>2. CASE SlotsOn(g) # {}
      <4>1. PICK j \in Slots : slot[j].handle = g
        BY <3>2 DEF SlotsOn
      <4> QED BY <1>5, <3>1, <4>1 DEF SlotsOn
    <3>3. CASE SlotsOn(g) = {}
      BY <1>1, <1>2, <2>3, <3>3 DEF Struct, Awaited
    <3> QED BY <3>2, <3>3
  <2> QED BY <2>2, <2>3 DEF Awaited
<1> QED BY <1>7, <1>8, <1>9, <1>10, <1>11, <1>12, <1>13, <1>14, <1>15 DEF Struct

(* A connection request keeps the invariant.                               *)
LEMMA PageHolds ==
    ASSUME TypeOK, Struct, NEW p \in Pads, Page(p)
    PROVE  Struct'
<1> DEFINE c == OfPad("CONNECT_REQUEST", p)
<1>1. /\ UNCHANGED <<boot, slot, torn, taken, link>> /\ boot = "configured"
      /\ ~Linked(p) /\ \A e \in hci : e.pad # p
      /\ hci' = hci \cup {c}
  BY PageEffect DEF driver
<1>2. c.t = "CONNECT_REQUEST" /\ c.pad = p /\ c = OfPad(c.t, c.pad)
  BY ItemFacts
<1> HIDE DEF c
<1>3. \A g : (EndDue(g)' <=> EndDue(g)) /\ SlotsOn(g)' = SlotsOn(g) /\ SlotsOf(g)' = SlotsOf(g)
  BY <1>1, <1>2 DEF EndDue, SlotsOn, SlotsOf
<1>4. \A q : Linked(q)' <=> Linked(q)
  BY <1>1 DEF Linked
<1>5. Quiet'
  BY <1>1 DEF Quiet
<1>6. Shape'
  BY <1>1, <1>2 DEF Struct, Shape
<1>7. Reports'
  BY <1>1, <1>2, <1>4 DEF Struct, Reports
<1>8. OneLink'
  BY <1>1, <1>2 DEF Struct, OneLink
<1>9. HandleLive'
  BY <1>1, <1>2, <1>3 DEF Struct, HandleLive
<1>10. OneSlotPerLink' /\ RunningHeld'
  BY <1>1 DEF Struct, OneSlotPerLink, RunningHeld, IsRunning
<1>11. Owner'
  BY <1>1, <1>2 DEF Struct, Owner
<1>12. Awaited'
  BY <1>1, <1>2, <1>3 DEF Struct, Awaited
<1> QED BY <1>5, <1>6, <1>7, <1>8, <1>9, <1>10, <1>11, <1>12 DEF Struct

(* A link that comes up keeps the invariant: no slot holds its handle.     *)
LEMMA OpensHolds ==
    ASSUME TypeOK, Struct, NEW p \in Pads, NEW h \in Handles, Opens(p, h), UNCHANGED driver
    PROVE  Struct'
<1> DEFINE c == OfLink("CONNECT_COMPLETE", p, h)
           u == OfPad("up", p)
<1>1. /\ UNCHANGED <<boot, slot, torn, taken>>
      /\ link[h] = NoPad /\ ~EndDue(h) /\ u \in hci
      /\ hci' = (hci \ {u}) \cup {c}
      /\ p # NoPad
  BY PadsAssumption DEF driver, Opens
<1>2. /\ c.t = "CONNECT_COMPLETE" /\ c.pad = p /\ c.handle = h /\ c = OfLink(c.t, c.pad, c.handle)
      /\ u.t = "up" /\ u.pad = p
  BY ItemFacts
<1>3. \A g \in Handles : link'[g] = IF g = h THEN p ELSE link[g]
  BY TypeParts DEF RestOk, Opens
<1>4. \A e \in hci : e.t = "up" /\ e.pad = p => e = u
  BY DEF Struct, Shape
<1> HIDE DEF c, u
<1>5. ~Linked(p)
  BY <1>1, <1>2 DEF Struct, Reports
<1>6. \A e \in hci : e.t \in {"CONNECT_REQUEST", "DISCONN_COMPLETE"} => e.pad # p
  BY <1>1, <1>2 DEF Struct, OneLink
<1>7. \A q : Linked(q)' => Linked(q) \/ q = p
  BY <1>3 DEF Linked
<1>8. \A j \in Slots : slot[j].handle # h
  BY <1>1, PadsAssumption DEF Struct, HandleLive
<1>9. \A g : EndDue(g) => EndDue(g)'
  BY <1>1, <1>2 DEF EndDue
<1>10. Quiet'
  BY <1>1 DEF Struct, Quiet
<1>11. Shape'
  BY <1>1, <1>2 DEF Struct, Shape
<1>12. Reports'
  <2>1. ASSUME NEW e \in hci', e.t \in {"CONNECT_REQUEST", "up"} PROVE ~Linked(e.pad)'
    <3>1. e \in hci /\ e # u
      BY <1>1, <1>2, <2>1
    <3>2. e.pad # p
      BY <1>4, <1>6, <2>1, <3>1
    <3>3. ~Linked(e.pad)
      BY <2>1, <3>1 DEF Struct, Reports
    <3> QED BY <1>7, <3>2, <3>3
  <2>2. ASSUME NEW e \in hci', e.t = "CONNECT_COMPLETE" PROVE link'[e.handle] = e.pad
    <3>1. CASE e = c
      BY <1>2, <1>3, <3>1
    <3>2. CASE e \in hci
      <4>1. link[e.handle] = e.pad /\ e.handle \in Handles /\ e.pad \in Pads
        BY <2>2, <3>2 DEF Struct, Reports, Shape
      <4>2. e.handle # h
        BY <1>1, <4>1, PadsAssumption
      <4> QED BY <1>3, <4>1, <4>2
    <3> QED BY <1>1, <3>1, <3>2
  <2>3. ASSUME NEW e \in hci', e.t = "down" PROVE link'[e.handle] # NoPad
    BY <1>1, <1>2, <1>3, <2>3 DEF Struct, Reports, Shape
  <2>4. ASSUME NEW e \in hci', e.t = "DISCONN_COMPLETE"
        PROVE  link'[e.handle] = NoPad /\ ~Linked(e.pad)'
    <3>1. e \in hci
      BY <1>1, <1>2, <2>4
    <3>2. e.handle # h /\ e.pad # p
      BY <1>1, <1>6, <2>4, <3>1 DEF EndDue
    <3>3. link[e.handle] = NoPad /\ ~Linked(e.pad) /\ e.handle \in Handles
      BY <2>4, <3>1 DEF Struct, Reports, Shape
    <3> QED BY <1>3, <1>7, <3>2, <3>3
  <2> QED BY <2>1, <2>2, <2>3, <2>4 DEF Reports
<1>13. OneLink'
  <2>1. \A f, g \in Handles : link'[f] = link'[g] /\ link'[f] # NoPad => f = g
    BY <1>3, <1>5 DEF Struct, OneLink, Linked
  <2>2. \A e \in hci' : e.t \in {"CONNECT_REQUEST", "up", "DISCONN_COMPLETE"} => e \in hci
    BY <1>1, <1>2
  <2> QED BY <2>1, <2>2 DEF Struct, OneLink
<1>14. HandleLive'
  <2>1. \A j \in Slots : slot'[j].handle # NoHandle =>
           link'[slot'[j].handle] # NoPad \/ EndDue(slot[j].handle)'
    <3>1. \A j \in Slots : slot[j].handle # NoHandle => slot[j].handle \in Handles
      <4>1. \A j \in Slots : slot[j] \in SlotRecs
        BY TypeParts DEF SlotOk, SlotTables
      <4> QED BY <4>1 DEF SlotRecs
    <3> QED BY <1>1, <1>3, <1>8, <1>9, <3>1 DEF Struct, HandleLive
  <2>2. \A e \in hci' : e.t = "CONNECT_COMPLETE" => SlotsOn(e.handle)' = {}
    <3>1. SlotsOn(h) = {}
      BY <1>8 DEF SlotsOn
    <3>2. \A g : SlotsOn(g)' = SlotsOn(g)
      BY <1>1 DEF SlotsOn
    <3> QED BY <1>1, <1>2, <3>1, <3>2 DEF Struct, HandleLive
  <2> QED BY <2>1, <2>2 DEF HandleLive
<1>15. OneSlotPerLink' /\ RunningHeld'
  BY <1>1 DEF Struct, OneSlotPerLink, RunningHeld, IsRunning
<1>16. Owner'
  <2> SUFFICES ASSUME ~taken PROVE Owner'
    BY <1>1 DEF Owner
  <2>1. \A j \in Slots, g \in Handles :
           slot'[j].handle = g /\ link'[g] # NoPad => slot'[j].bdaddr = link'[g]
    BY <1>1, <1>3, <1>8 DEF Struct, Owner
  <2>2. \A j \in Slots, e \in hci' :
           e.t = "DISCONN_COMPLETE" /\ slot'[j].handle = e.handle => slot'[j].bdaddr = e.pad
    BY <1>1, <1>2 DEF Struct, Owner
  <2> QED BY <2>1, <2>2 DEF Owner
<1>17. Awaited'
  <2> SUFFICES ASSUME ~taken PROVE Awaited'
    BY <1>1 DEF Awaited
  <2>1. \A q : SlotsOn(q)' = SlotsOn(q) /\ SlotsOf(q)' = SlotsOf(q)
    BY <1>1 DEF SlotsOn, SlotsOf
  <2>2. SlotsOf(p) # {}
    BY <1>1, <1>2 DEF Struct, Awaited
  <2>3. \A e \in hci' : e.t \in {"up", "CONNECT_COMPLETE"} => SlotsOf(e.pad)' # {}
    BY <1>1, <1>2, <2>1, <2>2 DEF Struct, Awaited
  <2>4. ASSUME NEW g \in Handles, link'[g] # NoPad
        PROVE  SlotsOn(g)' # {} \/ \E e \in hci' : e.t = "CONNECT_COMPLETE" /\ e.handle = g
    <3>1. CASE g = h
      BY <1>1, <1>2, <3>1
    <3>2. CASE g # h
      BY <1>1, <1>2, <1>3, <2>1, <2>4, <3>2 DEF Struct, Awaited
    <3> QED BY <3>1, <3>2
  <2> QED BY <2>3, <2>4 DEF Awaited
<1> QED BY <1>10, <1>11, <1>12, <1>13, <1>14, <1>15, <1>16, <1>17 DEF Struct

(* A link that ends keeps the invariant: its end is reported before the handle*)
(* is used again.                                                          *)
LEMMA ClosesHolds ==
    ASSUME TypeOK, Struct, NEW h \in Handles, link[h] # NoPad, Closes(h), UNCHANGED driver
    PROVE  Struct'
<1>10. PICK p \in Pads : link[h] = p
  BY TypeParts DEF RestOk
<1> DEFINE c == OfLink("DISCONN_COMPLETE", p, h)
           d == OfHandle("down", h)
           n == OfPad("REMOTE_NAME_COMPLETE", p)
<1>1. /\ UNCHANGED <<boot, slot, torn, taken>>
      /\ hci' = (hci \ {d, n}) \cup {c}
      /\ OfLink("CONNECT_COMPLETE", p, h) \notin hci
  BY <1>10 DEF driver, Closes
<1>2. /\ c.t = "DISCONN_COMPLETE" /\ c.pad = p /\ c.handle = h /\ c = OfLink(c.t, c.pad, c.handle)
      /\ d.t = "down" /\ n.t = "REMOTE_NAME_COMPLETE"
  BY ItemFacts
<1>3. \A g \in Handles : link'[g] = IF g = h THEN NoPad ELSE link[g]
  BY TypeParts DEF RestOk, Closes
<1>4. p \in Pads /\ p # NoPad
  BY <1>10
<1>5. \A e \in hci : e.t = "CONNECT_COMPLETE" => e.handle # h
  BY <1>1, <1>10 DEF Struct, Shape, Reports
<1>6. \A e \in hci : e.t = "down" /\ e.handle = h => e = d
  BY DEF Struct, Shape
<1>7. \A e \in hci' : (e \in hci /\ e # d) \/ e = c
  BY <1>1
<1>8. \A e \in hci : e \in hci' \/ e.t \in {"down", "REMOTE_NAME_COMPLETE"}
  BY <1>1, <1>2
<1>9. c \in hci'
  BY <1>1
<1> HIDE DEF c, d, n
<1>11. ~Linked(p)'
  BY <1>3, <1>4, <1>10 DEF Struct, OneLink, Linked
<1>12. \A q : Linked(q)' => Linked(q) \/ q = NoPad
  BY <1>3 DEF Linked
<1>13. \A g : EndDue(g) \/ g = h => EndDue(g)'
  BY <1>2, <1>8, <1>9 DEF EndDue
<1>14. \A q : SlotsOn(q)' = SlotsOn(q) /\ SlotsOf(q)' = SlotsOf(q)
  BY <1>1 DEF SlotsOn, SlotsOf
<1>15. Quiet'
  <2>1. boot = "configured"
    BY <1>10 DEF Struct, Quiet
  <2> QED BY <1>1, <2>1 DEF Quiet
<1>16. Shape'
  BY <1>2, <1>4, <1>7 DEF Struct, Shape
<1>17. Reports'
  <2>1. ASSUME NEW e \in hci', e.t \in {"CONNECT_REQUEST", "up"} PROVE ~Linked(e.pad)'
    <3>1. e \in hci
      BY <1>2, <1>7, <2>1
    <3>2. ~Linked(e.pad) /\ e.pad # NoPad
      BY <2>1, <3>1, PadsAssumption DEF Struct, Reports, Shape
    <3> QED BY <1>12, <3>2
  <2>2. ASSUME NEW e \in hci', e.t = "CONNECT_COMPLETE" PROVE link'[e.handle] = e.pad
    BY <1>2, <1>3, <1>5, <1>7, <2>2 DEF Struct, Reports, Shape
  <2>3. ASSUME NEW e \in hci', e.t = "down" PROVE link'[e.handle] # NoPad
    BY <1>2, <1>3, <1>6, <1>7, <2>3 DEF Struct, Reports, Shape
  <2>4. ASSUME NEW e \in hci', e.t = "DISCONN_COMPLETE"
        PROVE  link'[e.handle] = NoPad /\ ~Linked(e.pad)'
    <3>1. CASE e = c
      BY <1>2, <1>3, <1>11, <3>1
    <3>2. CASE e \in hci
      <4>1. link[e.handle] = NoPad /\ ~Linked(e.pad) /\ e.handle \in Handles /\ e.pad # NoPad
        BY <2>4, <3>2, PadsAssumption DEF Struct, Reports, Shape
      <4> QED BY <1>3, <1>12, <4>1
    <3> QED BY <1>7, <3>1, <3>2
  <2> QED BY <2>1, <2>2, <2>3, <2>4 DEF Reports
<1>18. OneLink'
  <2>1. \A f, g \in Handles : link'[f] = link'[g] /\ link'[f] # NoPad => f = g
    BY <1>3 DEF Struct, OneLink
  <2>2. \A e \in hci' : e.t \in {"CONNECT_REQUEST", "up"} => e \in hci /\ e.pad # p
    BY <1>2, <1>7, <1>10 DEF Struct, Reports, Linked
  <2> QED BY <1>2, <1>7, <2>1, <2>2 DEF Struct, OneLink
<1>19. HandleLive'
  <2>1. \A j \in Slots : slot'[j].handle # NoHandle =>
           link'[slot'[j].handle] # NoPad \/ EndDue(slot[j].handle)'
    <3>1. \A j \in Slots : slot[j].handle # NoHandle => slot[j].handle \in Handles
      <4>1. \A j \in Slots : slot[j] \in SlotRecs
        BY TypeParts DEF SlotOk, SlotTables
      <4> QED BY <4>1 DEF SlotRecs
    <3> QED BY <1>1, <1>3, <1>13, <3>1 DEF Struct, HandleLive
  <2>2. \A e \in hci' : e.t = "CONNECT_COMPLETE" => SlotsOn(e.handle)' = {}
    BY <1>2, <1>7, <1>14 DEF Struct, HandleLive
  <2> QED BY <2>1, <2>2 DEF HandleLive
<1>20. OneSlotPerLink' /\ RunningHeld'
  BY <1>1 DEF Struct, OneSlotPerLink, RunningHeld, IsRunning
<1>21. Owner'
  <2> SUFFICES ASSUME ~taken PROVE Owner'
    BY <1>1 DEF Owner
  <2>1. \A j \in Slots, g \in Handles :
           slot'[j].handle = g /\ link'[g] # NoPad => slot'[j].bdaddr = link'[g]
    BY <1>1, <1>3 DEF Struct, Owner
  <2>2. \A j \in Slots, e \in hci' :
           e.t = "DISCONN_COMPLETE" /\ slot'[j].handle = e.handle => slot'[j].bdaddr = e.pad
    BY <1>1, <1>2, <1>7, <1>10 DEF Struct, Owner
  <2> QED BY <2>1, <2>2 DEF Owner
<1>22. Awaited'
  <2> SUFFICES ASSUME ~taken PROVE Awaited'
    BY <1>1 DEF Awaited
  <2>1. \A e \in hci' : e.t \in {"up", "CONNECT_COMPLETE"} => SlotsOf(e.pad)' # {}
    BY <1>2, <1>7, <1>14 DEF Struct, Awaited
  <2>2. \A g \in Handles : link'[g] # NoPad =>
           SlotsOn(g)' # {} \/ \E e \in hci' : e.t = "CONNECT_COMPLETE" /\ e.handle = g
    BY <1>3, <1>8, <1>14 DEF Struct, Awaited
  <2> QED BY <2>1, <2>2 DEF Awaited
<1> QED BY <1>15, <1>16, <1>17, <1>18, <1>19, <1>20, <1>21, <1>22 DEF Struct

(* Every step keeps the invariant.                                         *)
LEMMA StepHolds ==
    ASSUME IInv, [Next]_vars
    PROVE  IInv'
<1>1. TypeOK /\ Struct
  BY DEF IInv
<1>2. ASSUME TypeOK', Kept PROVE IInv'
  BY <1>1, <1>2, KeptHolds DEF IInv
<1>3. CASE bt_connect \/ \E ok \in BOOLEAN : CommandComplete(ok)
  BY <1>1, <1>2, <1>3, StartEffect
<1>4. CASE bt_config_set
  <2>1. TypeOK' /\ AllClear' /\ boot # "configured" /\ hci' = hci /\ link' = link
    BY <1>1, <1>4, ConfigSetEffect
  <2>2. hci' = {} /\ \A h \in Handles : link'[h] = NoPad
    BY <1>1, <2>1 DEF Struct, Quiet
  <2> QED BY <2>1, <2>2, ClearHoldsNext DEF IInv
<1>5. CASE bt_disconnect
  BY <1>1, <1>5, DisconnectEffect, ClearHoldsNext DEF IInv
<1>6. ASSUME NEW p \in Pads, ConnectRequest(p) PROVE IInv'
  <2>1. TypeOK' /\ (Kept \/ \E i \in Slots : Accepts(p, i))
    BY <1>1, <1>6, ConnectRequestEffect
  <2>2. (\E i \in Slots : Accepts(p, i)) => Struct'
    BY <1>1, AcceptsHolds
  <2> QED BY <1>2, <2>1, <2>2 DEF IInv
<1>7. ASSUME NEW p \in Pads, RemoteNameComplete(p) PROVE IInv'
  BY <1>1, <1>2, <1>7, RemoteNameEffect
<1>8. ASSUME NEW p \in Pads, NEW h \in Handles, ConnectComplete(p, h) PROVE IInv'
  BY <1>1, <1>8, ConnectCompleteEffect, ReportedHolds DEF IInv
<1>9. ASSUME NEW p \in Pads, NEW h \in Handles, DisconnComplete(p, h) PROVE IInv'
  BY <1>1, <1>9, DisconnCompleteEffect, EndedHolds DEF IInv
<1>10. ASSUME NEW h \in Handles, L2capEvent(h) PROVE IInv'
  BY <1>1, <1>2, <1>10, L2capEventEffect
<1>11. ASSUME NEW h \in Handles, L2capError(h) PROVE IInv'
  BY <1>1, <1>2, <1>11, L2capErrorEffect
<1>12. CASE ds34bt_reset
  BY <1>1, <1>2, <1>12, ResetEffect
<1>13. ASSUME NEW p \in Pads, Page(p) PROVE IInv'
  BY <1>1, <1>13, PageEffect, PageHolds DEF IInv
<1>14. ASSUME NEW p \in Pads, LinkUp(p) PROVE IInv'
  BY <1>1, <1>14, LinkUpEffect, OpensHolds DEF IInv
<1>15. ASSUME NEW p \in Pads, LinkFails(p) PROVE IInv'
  BY <1>1, <1>2, <1>15, LinkFailsEffect
<1>16. ASSUME NEW h \in Handles, LinkDown(h) \/ LinkLost(h) PROVE IInv'
  <2>1. link[h] # NoPad
    BY <1>1, <1>16, ItemFacts DEF Struct, Reports, LinkDown, LinkLost
  <2> QED BY <1>1, <1>16, <2>1, LinkGoneEffect, ClosesHolds DEF IInv
<1>17. ASSUME NEW h \in Handles,
              PadReports(h) \/ PadLeaves(h) \/ \E ch \in Channels : PadRequests(h, ch)
       PROVE  IInv'
  BY <1>1, <1>2, <1>17, PadEffect
<1>18. CASE UNCHANGED vars
  <2>1. UNCHANGED <<boot, slot, rpc, torn, taken, hci, link, acl, chan, pages, plugs, faults>>
    BY <1>18 DEF vars, driver, adapter, bounds
  <2>2. TypeOK'
    BY <1>1, <2>1 DEF TypeOK
  <2>3. Kept
    BY <2>1 DEF Kept, IsRunning
  <2> QED BY <1>2, <2>2, <2>3
<1> QED
  BY <1>3, <1>4, <1>5, <1>6, <1>7, <1>8, <1>9, <1>10, <1>11, <1>12, <1>13, <1>14, <1>15, <1>16,
     <1>17, <1>18 DEF Next, PadEvent

-----------------------------------------------------------------------------
(* The theorems.                                                           *)

(* The invariant holds in every reachable state of the driver, its adapter and*)
(* its pads.                                                               *)
THEOREM Invariance == Spec => []IInv
<1>1. Init => IInv
  BY InitEffect, ClearHolds DEF IInv
<1> QED BY <1>1, StepHolds, PTL DEF Spec

(* Every state of the driver has its type, and no sequence of events, packets and*)
(* removals leaves a slot running without a link whose end will be reported.*)
THEOREM RunningSlotsHaveLinks == Spec => []RunningHasLink
<1>1. IInv => RunningHasLink
  <2> SUFFICES ASSUME IInv PROVE RunningHasLink
    OBVIOUS
  <2>1. TypeOK /\ RunningHeld /\ HandleLive
    BY DEF IInv, Struct
  <2>2. \A i \in Slots : slot[i].handle # NoHandle => slot[i].handle \in Handles
    <3>1. \A i \in Slots : slot[i] \in SlotRecs
      BY <2>1, TypeParts DEF SlotOk, SlotTables
    <3> QED BY <3>1 DEF SlotRecs
  <2> QED BY <2>1, <2>2 DEF RunningHasLink, RunningHeld, HandleLive
<1> QED BY <1>1, Invariance, PTL

(* No two slots ever hold the same connection handle.                      *)
THEOREM LinksAreNotShared == Spec => []OneSlotPerLink
<1>1. IInv => OneSlotPerLink
  BY DEF IInv, Struct
<1> QED BY <1>1, Invariance, PTL

(* As long as no pad is given the slot of one being set up, every reported link*)
(* has a slot and a running slot carries the pad whose address it holds.   *)
THEOREM SlotsAndLinksAgree == Spec => []SlotFollowsLink
<1>1. IInv => SlotFollowsLink
  BY DEF IInv, Struct, SlotFollowsLink, Owner, Awaited
<1> QED BY <1>1, Invariance, PTL
=============================================================================
