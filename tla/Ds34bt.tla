------------------------------- MODULE Ds34bt -------------------------------
(***************************************************************************)
(* The Bluetooth DualShock driver of the menu (modules/ds34bt/iop).  One   *)
(* USB adapter carries the links of several pads; the driver keeps         *)
(* MAX_PADS slots and drives each pad through HCI connection, L2CAP        *)
(* channel set-up and disconnection entirely from the completion callbacks *)
(* of two USB pipes: hci_event_cb (interrupt pipe) and l2cap_event_cb      *)
(* (bulk pipe).  The two pipes are not ordered against each other.  An RPC *)
(* thread of lower priority serves the EE: it may be preempted by the      *)
(* callbacks anywhere, because they only PollSema the lock it waits for.   *)
(*                                                                         *)
(* The adapter and the pads are outside the repository: they are modelled  *)
(* by what the driver expects of them, and may fail links at any moment.   *)
(* A pad answers a packet at once, but each link has its own queue towards *)
(* the driver and the driver may serve links and events in any order.      *)
(*                                                                         *)
(* Left out: packet identifiers and link keys (never compared), HID        *)
(* payloads (reports, LEDs, rumble), and the packets that change no state: *)
(* PENDING responses, a pad's configuration request and its answer.        *)
(* DS34BT_INIT is not modelled: nothing in the program sends it.  The      *)
(* program calls ds34bt_reset when it is about to reset the IOP: once.     *)
(*                                                                         *)
(* An operator whose name ends in _Bug is a wrong version of the one below *)
(* it, used by the mutation runs.                                          *)
(***************************************************************************)
EXTENDS Naturals, Sequences, FiniteSets, FiniteSetsExt

CONSTANTS Pads,         \* Bluetooth addresses of the pads in range
          DS4Pads,      \* the pads whose name is "Wireless Controller"
          GenuinePads,  \* the pads whose address is in GenuineMacAddress
          MAX_PADS,     \* slots of the driver
          Enabled,      \* the slots _start enables from its argument
          Handles,      \* connection handles the adapter can give out
          NoPad,        \* a cleared bdaddr or channel endpoint
          NoHandle,     \* 0x0FFF
          MaxPages,     \* bound: connection requests of pads in a behaviour
          MaxPlugs,     \* bound: insertions of the adapter in a behaviour
          MaxFaults     \* bound: links lost or refused, pads switched off and
                        \* transfers failed in a behaviour

Slots == 0 .. MAX_PADS - 1

ASSUME SlotsAssumption == MAX_PADS \in Nat \ {0} /\ Enabled \subseteq Slots
ASSUME PadsAssumption  == /\ DS4Pads \subseteq Pads /\ GenuinePads \subseteq Pads
                          /\ Handles \subseteq Nat
                          /\ NoPad \notin Pads /\ NoHandle \notin Handles
ASSUME BoundsAssumption == MaxPages \in Nat /\ MaxPlugs \in Nat /\ MaxFaults \in Nat

Types    == {"DS3", "DS4"}
Channels == {"ctrl", "intr"}
Flags    == {"CONNECTED", "RUNNING", "DISCONNECTING", "DISCONNECT_REQUEST"}

VARIABLES
    boot,   \* the start-up command the adapter owes an answer to
    slot,   \* ds34pad: the driver's record of each pad
    rpc,    \* where the RPC thread is in ds34bt_reset
    torn,   \* history: a status store of the RPC thread undid a callback's
    taken,  \* history: a pad was given the slot of one being set up
    hci,    \* adapter: commands it is working on and events not delivered
    link,   \* adapter: the pad behind each connection handle
    acl,    \* adapter: packets received on each handle, not delivered
    chan,   \* pads: the driver's endpoint of each channel, as the pad knows it
    pages, plugs, faults  \* bounds

driver  == <<boot, slot, rpc, torn, taken>>
adapter == <<hci, link, acl, chan>>
bounds  == <<pages, plugs, faults>>
vars    == <<driver, adapter, bounds>>

Boots == {"unplugged", "set_config", "reset", "bdaddr", "version",
          "features", "scan_enable", "configured"}

\* ds34pad_clear not clearing the status.
ClearKeeps_Bug(s) == [s EXCEPT !.handle = NoHandle, !.bdaddr = NoPad, !.type = "DS3",
                      !.scid = [c \in Channels |-> NoPad], !.fake = FALSE]

\* What ds34pad_clear leaves.  The type field is zeroed, which is DS3.
Clear(s) == [s EXCEPT !.handle = NoHandle, !.bdaddr = NoPad, !.type = "DS3",
                      !.scid = [c \in Channels |-> NoPad], !.fake = FALSE,
                      !.status = {}]

Fresh == [handle |-> NoHandle, bdaddr |-> NoPad, type |-> "DS3", fake |-> FALSE,
          scid |-> [c \in Channels |-> NoPad], status |-> {}]

\* Events and pending commands.  "up" and "down" are links being opened and
\* closed at the driver's command; the other four are reported to the driver.
HciItems ==
    [t : {"CONNECT_REQUEST", "CONNECT_COMPLETE", "DISCONN_COMPLETE",
          "REMOTE_NAME_COMPLETE", "up", "down"},
     pad : Pads \cup {NoPad}, handle : Handles \cup {NoHandle}]

OfPad(t, p)    == [t |-> t, pad |-> p, handle |-> NoHandle]
OfHandle(t, h) == [t |-> t, pad |-> NoPad, handle |-> h]
OfLink(t, p, h) == [t |-> t, pad |-> p, handle |-> h]

\* The end of the link h has not been reported yet.
EndDue(h) == \E e \in hci : e.t = "DISCONN_COMPLETE" /\ e.handle = h

\* Packets from a pad.  `base' is the channel endpoint of the driver they
\* name: 0x0040/0x0041 when it used those of a DS3, 0x0070/0x0071 of a DS4.
Packets == [t : {"ConnReq", "ConnResp", "CfgResp", "DiscReq", "DiscResp", "Report"},
            ch : Channels, base : Types, pad : Pads]

IdleRpc == [pc |-> "idle", pad |-> 0, loaded |-> {}]

Init ==
    /\ boot = "unplugged"
    /\ slot = [i \in Slots |-> Fresh]
    /\ rpc = IdleRpc
    /\ torn = FALSE
    /\ taken = FALSE
    /\ hci = {}
    /\ link = [h \in Handles |-> NoPad]
    /\ acl = [h \in Handles |-> <<>>]
    /\ chan = [p \in Pads |-> [c \in Channels |-> "closed"]]
    /\ pages = 0
    /\ plugs = 0
    /\ faults = 0

-----------------------------------------------------------------------------
(* Slots.                                                                  *)

\* Every search of the driver takes the first slot that fits.
First(S) == Min(S)

SlotsOf(p)  == {i \in Slots : slot[i].bdaddr = p}
SlotsOn(h)  == {i \in Slots : slot[i].handle = h}
IsRunning(i) == "RUNNING" \in slot[i].status

Linked(p) == \E h \in Handles : link[h] = p

\* hci_disconnect: the adapter starts to close the link.  A handle that is
\* not connected is refused with a command status the driver only prints.
hci_disconnect(h) == IF h \in Handles /\ link[h] # NoPad
                     THEN {OfHandle("down", h)} ELSE {}

-----------------------------------------------------------------------------
(* Pads (external): what a pad does with a packet of the driver.  `dst' is  *)
(* the endpoint the driver named; a pad ignores one that is not its own.    *)

Pkt(t, ch, base, p) == [t |-> t, ch |-> ch, base |-> base, pad |-> p]
Cmd(t, ch, base, dst) == [t |-> t, ch |-> ch, base |-> base, dst |-> dst]

PadReply(p, st, m) ==
    LET own == m.dst = p /\ st.chan[m.ch] \in Types IN
    CASE m.t = "ConnReq" ->
           [chan |-> [st.chan EXCEPT ![m.ch] = m.base],
            out  |-> Append(st.out, Pkt("ConnResp", m.ch, m.base, p))]
      [] m.t = "ConnResp" ->
           [st EXCEPT !.chan[m.ch] = m.base]
      [] m.t = "CfgReq" /\ own ->
           [st EXCEPT !.out = Append(@, Pkt("CfgResp", m.ch, st.chan[m.ch], p))]
      [] m.t = "DiscReq" /\ own ->
           [chan |-> [st.chan EXCEPT ![m.ch] = "closed"],
            out  |-> Append(st.out, Pkt("DiscResp", m.ch, st.chan[m.ch], p))]
      [] OTHER -> st

\* What a pad makes of the packets of one callback, which are at most three.
PadReplies(p, st, cmds) ==
    LET Answered(k, s) == IF k <= Len(cmds) THEN PadReply(p, s, cmds[k]) ELSE s
    IN  Answered(3, Answered(2, Answered(1, st)))

Fault == faults < MaxFaults /\ faults' = faults + 1

\* The driver sends cmds on handle h, with the packets `rest' still queued
\* on it; packets on a handle that is not connected are lost.
L2CAP_Command(h, cmds, rest) ==
    IF h \in Handles /\ link[h] # NoPad
    THEN LET p  == link[h]
             st == PadReplies(p, [chan |-> chan[p], out |-> rest], cmds)
         IN  /\ chan' = [chan EXCEPT ![p] = st.chan]
             /\ acl' = [acl EXCEPT ![h] = st.out]
    ELSE /\ acl' = IF h \in Handles THEN [acl EXCEPT ![h] = rest] ELSE acl
         /\ UNCHANGED chan

-----------------------------------------------------------------------------
(* USB and start-up.                                                       *)

\* bt_probe and bt_connect: one adapter at a time; its configuration is set
\* and bt_config_set called when that is done.
bt_connect ==
    /\ boot = "unplugged" /\ plugs < MaxPlugs
    /\ boot' = "set_config"
    /\ plugs' = plugs + 1
    /\ UNCHANGED <<slot, rpc, torn, taken, adapter, pages, faults>>

\* bt_config_set: the pipes are started, the slots cleared, the adapter reset.
bt_config_set ==
    /\ boot = "set_config"
    /\ slot' = [i \in Slots |-> Clear(slot[i])]
    /\ boot' = "reset"
    /\ UNCHANGED <<rpc, torn, taken, adapter, bounds>>

\* bt_disconnect: every slot is cleared.  The adapter takes its links,
\* events and packets with it.
bt_disconnect ==
    /\ boot # "unplugged"
    /\ boot' = "unplugged"
    /\ slot' = [i \in Slots |-> Clear(slot[i])]
    /\ hci' = {}
    /\ link' = [h \in Handles |-> NoPad]
    /\ acl' = [h \in Handles |-> <<>>]
    /\ chan' = [p \in Pads |-> [c \in Channels |-> "closed"]]
    /\ UNCHANGED <<rpc, torn, taken, bounds>>

NextBoot(cmd) ==
    CASE cmd = "reset"       -> "bdaddr"
      [] cmd = "bdaddr"      -> "version"
      [] cmd = "version"     -> "features"
      [] cmd = "features"    -> "scan_enable"
      [] cmd = "scan_enable" -> "configured"

\* HCI_EVENT_COMMAND_COMPLETE: each answer sends the next command of the
\* chain; a failed one starts it again with hci_reset.
CommandComplete(ok) ==
    /\ boot \in {"reset", "bdaddr", "version", "features", "scan_enable"}
    /\ boot' = IF ok THEN NextBoot(boot) ELSE "reset"
    /\ UNCHANGED <<slot, rpc, torn, taken, adapter, bounds>>

-----------------------------------------------------------------------------
(* hci_event_cb: one event of the interrupt pipe.                          *)

\* The slots CONNECT_REQUEST may take: enabled, not running, and not waiting
\* for the disconnection of a pad that is still connected.
Usable(i) ==
    /\ i \in Enabled /\ ~IsRunning(i)
    /\ ~({"CONNECTED", "DISCONNECTING"} \subseteq slot[i].status)

\* A slot some pad still stands behind: it holds a link whose end has not
\* been reported, or an accepted pad whose link has not been reported yet.
InUse(i) ==
    \/ slot[i].handle # NoHandle
    \/ \E e \in hci : e.t \in {"up", "CONNECT_COMPLETE"} /\ e.pad = slot[i].bdaddr

\* The slot of a pad whose request is accepted.
Accept(s, p) == [s EXCEPT !.bdaddr = p, !.fake = p \notin GenuinePads,
                          !.status = @ \ {"CONNECTED", "RUNNING", "DISCONNECTING"}]

\* HCI_EVENT_CONNECT_REQUEST.  The slot of a pad that is still being set up
\* is taken over: its link is told to close, its handle stays in the slot.
ConnectRequest(p) ==
    LET e == OfPad("CONNECT_REQUEST", p)
        usable == {i \in Slots : Usable(i)}
        i == First(usable)
    IN
    /\ e \in hci
    /\ IF usable = {}
       THEN hci' = hci \ {e} /\ UNCHANGED <<slot, taken>>
       ELSE /\ slot' = [slot EXCEPT ![i] = Accept(@, p)]
            /\ taken' = (taken \/ InUse(i))
            /\ hci' = (hci \ {e})
                      \cup {OfPad("up", p)}
                      \cup (IF "CONNECTED" \in slot[i].status
                            THEN hci_disconnect(slot[i].handle) ELSE {})
    /\ UNCHANGED <<boot, rpc, torn, link, acl, chan, bounds>>

\* The slot that is given the link h.
Hold(s, h) == [s EXCEPT !.handle = h, !.status = @ \cup {"CONNECTED"}]

\* HCI_EVENT_CONNECT_COMPLETE: the slot waiting for this address gets the
\* handle, and the pad is asked its name.  (With an error, or when no slot
\* waits for the address, nothing happens.)
ConnectComplete(p, h) ==
    LET e == OfLink("CONNECT_COMPLETE", p, h)
        i == First(SlotsOf(p))
    IN
    /\ e \in hci
    /\ IF SlotsOf(p) = {}
       THEN hci' = hci \ {e} /\ UNCHANGED slot
       ELSE /\ slot' = [slot EXCEPT ![i] = Hold(@, h)]
            /\ hci' = (hci \ {e}) \cup {OfPad("REMOTE_NAME_COMPLETE", p)}
    /\ UNCHANGED <<boot, rpc, torn, taken, link, acl, chan, bounds>>

\* The slot after the right one is cleared; every slot is.
DisconnNextSlot_Bug(p, h) ==
    LET e == OfLink("DISCONN_COMPLETE", p, h) IN
    /\ e \in hci
    /\ hci' = hci \ {e}
    /\ slot' = [i \in Slots |-> IF i - 1 \in SlotsOn(h) THEN Clear(slot[i]) ELSE slot[i]]
    /\ UNCHANGED <<boot, rpc, torn, taken, link, acl, chan, bounds>>
DisconnAllSlots_Bug(p, h) ==
    LET e == OfLink("DISCONN_COMPLETE", p, h) IN
    /\ e \in hci
    /\ hci' = hci \ {e}
    /\ slot' = [i \in Slots |-> Clear(slot[i])]
    /\ UNCHANGED <<boot, rpc, torn, taken, link, acl, chan, bounds>>

\* HCI_EVENT_DISCONN_COMPLETE: the slot that holds the handle is cleared,
\* whatever the status byte of the event says.  The adapter is assumed to
\* send the event for links that are gone, not to report with it that a
\* disconnection failed.
DisconnComplete(p, h) ==
    LET e == OfLink("DISCONN_COMPLETE", p, h) IN
    /\ e \in hci
    /\ hci' = hci \ {e}
    /\ slot' = IF SlotsOn(h) = {} THEN slot
               ELSE [slot EXCEPT ![First(SlotsOn(h))] = Clear(@)]
    /\ UNCHANGED <<boot, rpc, torn, taken, link, acl, chan, bounds>>

\* The slot of a pad that turns out to be a DS4.
SetDS4(s) == [s EXCEPT !.type = "DS4", !.fake = FALSE]

\* HCI_EVENT_REMOTE_NAME_COMPLETE: the name gives the type; the driver opens
\* the control channel of a DS4 itself.
RemoteNameComplete(p) ==
    LET e == OfPad("REMOTE_NAME_COMPLETE", p)
        i == First(SlotsOf(p))
        h == slot[i].handle
    IN
    /\ e \in hci
    /\ hci' = hci \ {e}
    /\ IF SlotsOf(p) = {}
       THEN UNCHANGED <<slot, acl, chan>>
       ELSE IF p \in DS4Pads
       THEN /\ slot' = [slot EXCEPT ![i] = SetDS4(@)]
            /\ L2CAP_Command(h, <<Cmd("ConnReq", "ctrl", "DS4", NoPad)>>,
                             IF h \in Handles THEN acl[h] ELSE <<>>)
       ELSE /\ slot' = [slot EXCEPT ![i].type = "DS3"]
            /\ UNCHANGED <<acl, chan>>
    /\ UNCHANGED <<boot, rpc, torn, taken, link, bounds>>

-----------------------------------------------------------------------------
(* l2cap_event_cb: one packet of the bulk pipe.                            *)

\* L2CAP_event_task: what a packet m does to the slot it belongs to.  The
\* result also has the packets sent back and whether the link is closed.
Result(s, cmds, close) == [slot |-> s, cmds |-> cmds, close |-> close]

SetStatus(s, f) == [s EXCEPT !.status = @ \cup {f}]

L2CAP_event_task(s, m) ==
    LET mine == m.base = s.type IN
    CASE m.t = "ConnReq" ->
           Result([s EXCEPT !.scid[m.ch] = m.pad],
                  <<Cmd("ConnResp", m.ch, s.type, m.pad), Cmd("CfgReq", m.ch, s.type, m.pad)>>, FALSE)
      [] m.t = "ConnResp" /\ mine ->
           Result([s EXCEPT !.scid[m.ch] = m.pad], <<Cmd("CfgReq", m.ch, s.type, m.pad)>>, FALSE)
      [] m.t = "CfgResp" /\ mine /\ m.ch = "ctrl" ->
           Result(s, <<Cmd("ConnReq", "intr", s.type, NoPad)>>, FALSE)
      [] m.t = "CfgResp" /\ mine /\ m.ch = "intr" ->
           Result(SetStatus(s, "RUNNING"), <<>>, FALSE)
      [] m.t = "DiscReq" /\ mine ->
           Result(SetStatus(s, "DISCONNECTING"), <<>>, FALSE)
      [] m.t = "DiscResp" /\ m.ch = "ctrl" /\ s.scid["ctrl"] = m.pad ->
           Result(SetStatus(s, "DISCONNECTING"), <<>>, TRUE)
      [] m.t = "DiscResp" /\ m.ch = "intr" /\ s.scid["intr"] = m.pad ->
           Result(SetStatus(s, "DISCONNECTING"),
                  <<Cmd("DiscReq", "ctrl", s.type, s.scid["ctrl"])>>, FALSE)
      [] OTHER -> Result(s, <<>>, FALSE)

\* The request to disconnect a fake pad is cleared unserved.
AfterPacket_Bug(r) ==
    LET s == r.slot
        t == [s EXCEPT !.status = @ \ {"DISCONNECT_REQUEST"}]
    IN
    IF ~({"RUNNING", "DISCONNECT_REQUEST"} \subseteq s.status) THEN r
    ELSE IF s.fake THEN Result(t, r.cmds, r.close)
    ELSE Result(t, Append(r.cmds, Cmd("DiscReq", "intr", s.type, s.scid["intr"])), r.close)

\* The rest of l2cap_event_cb: a running pad that is asked to go is
\* disconnected.  (Otherwise a pending LED or rumble update is sent.)
AfterPacket(r) ==
    LET s == r.slot
        t == [s EXCEPT !.status = @ \ {"DISCONNECT_REQUEST"}]
    IN
    IF ~({"RUNNING", "DISCONNECT_REQUEST"} \subseteq s.status) THEN r
    ELSE IF s.fake THEN Result(t, r.cmds, TRUE)
    ELSE Result(t, Append(r.cmds, Cmd("DiscReq", "intr", s.type, s.scid["intr"])), r.close)

\* A packet on a handle no slot holds is dropped.
L2capEvent(h) ==
    LET i == First(SlotsOn(h))
        r == AfterPacket(L2CAP_event_task(slot[i], Head(acl[h])))
    IN
    /\ acl[h] # <<>>
    /\ IF SlotsOn(h) = {}
       THEN /\ acl' = [acl EXCEPT ![h] = Tail(@)]
            /\ UNCHANGED <<slot, hci, chan>>
       ELSE /\ slot' = [slot EXCEPT ![i] = r.slot]
            /\ L2CAP_Command(h, r.cmds, Tail(acl[h]))
            /\ hci' = hci \cup (IF r.close THEN hci_disconnect(h) ELSE {})
    /\ UNCHANGED <<boot, rpc, torn, taken, link, bounds>>

\* A failed bulk transfer: L2CAP_event_task returns -1 and l2cap_event_cb
\* goes on with the memory before ds34pad.  Whatever it holds, a
\* disconnection is sent to some handle, or nothing is; what pad_status_clear
\* then writes into that memory, which is no slot, is left out.
L2capError(h) ==
    /\ boot = "configured" /\ link[h] # NoPad
    /\ Fault
    /\ \/ hci' = hci \cup hci_disconnect(h) /\ UNCHANGED <<acl, chan>>
       \/ /\ L2CAP_Command(h, <<Cmd("DiscReq", "intr", "DS3", link[h])>>, acl[h])
          /\ UNCHANGED hci
    /\ UNCHANGED <<driver, link, pages, plugs>>

-----------------------------------------------------------------------------
(* The RPC thread.                                                         *)

\* ds34bt_reset: slot by slot, ask the pad to disconnect and wait until it
\* is no longer running.  pad_status_set loads the status and stores it back.
ResetLoad(i) == rpc' = [pc |-> "store", pad |-> i, loaded |-> slot[i].status]

ResetBegin ==
    /\ rpc.pc = "idle" /\ boot # "unplugged"
    /\ ResetLoad(0)
    /\ UNCHANGED <<boot, slot, torn, taken, adapter, bounds>>

ResetStore ==
    /\ rpc.pc = "store"
    /\ slot' = [slot EXCEPT ![rpc.pad].status = rpc.loaded \cup {"DISCONNECT_REQUEST"}]
    /\ torn' = (torn \/ slot[rpc.pad].status # rpc.loaded)
    /\ rpc' = [rpc EXCEPT !.pc = "wait", !.loaded = {}]
    /\ UNCHANGED <<boot, taken, adapter, bounds>>

ResetWait ==
    /\ rpc.pc = "wait" /\ ~IsRunning(rpc.pad)
    /\ IF rpc.pad = MAX_PADS - 1 THEN rpc' = [IdleRpc EXCEPT !.pc = "done"]
       ELSE ResetLoad(rpc.pad + 1)
    /\ UNCHANGED <<boot, slot, torn, taken, adapter, bounds>>

ds34bt_reset == ResetBegin \/ ResetStore \/ ResetWait

-----------------------------------------------------------------------------
(* The adapter and the pads (external).                                    *)

\* A pad that has no link asks for one.  The adapter has reported whatever
\* happened to this pad before.
Page(p) ==
    /\ boot = "configured" /\ pages < MaxPages
    /\ ~Linked(p) /\ \A e \in hci : e.pad # p
    /\ hci' = hci \cup {OfPad("CONNECT_REQUEST", p)}
    /\ pages' = pages + 1
    /\ UNCHANGED <<driver, link, acl, chan, plugs, faults>>

\* An accepted link comes up, or fails to.  Paging takes far longer than the
\* 500 us between two polls of ds34bt_reset, so a poll that is due comes first.
LinkUp(p) ==
    LET free == {h \in Handles : /\ link[h] = NoPad /\ acl[h] = <<>>
                                 /\ ~EndDue(h)}
        h == First(free)
    IN
    /\ OfPad("up", p) \in hci /\ free # {}
    /\ rpc.pc = "wait" => IsRunning(rpc.pad)
    /\ link' = [link EXCEPT ![h] = p]
    /\ hci' = (hci \ {OfPad("up", p)}) \cup {OfLink("CONNECT_COMPLETE", p, h)}
    /\ UNCHANGED <<driver, acl, chan, bounds>>

LinkFails(p) ==
    /\ OfPad("up", p) \in hci
    /\ Fault
    /\ hci' = hci \ {OfPad("up", p)}
    /\ UNCHANGED <<driver, link, acl, chan, pages, plugs>>

\* A link goes down, at the driver's command or by itself; packets already
\* received are still delivered.  A link is reported up before it is
\* reported down.
LinkGone(h) ==
    /\ OfLink("CONNECT_COMPLETE", link[h], h) \notin hci
    /\ link' = [link EXCEPT ![h] = NoPad]
    /\ hci' = (hci \ {OfHandle("down", h), OfPad("REMOTE_NAME_COMPLETE", link[h])})
              \cup {OfLink("DISCONN_COMPLETE", link[h], h)}
    /\ chan' = [chan EXCEPT ![link[h]] = [c \in Channels |-> "closed"]]
    /\ UNCHANGED <<driver, acl, pages, plugs>>

LinkDown(h) == OfHandle("down", h) \in hci /\ LinkGone(h) /\ UNCHANGED faults

LinkLost(h) == link[h] # NoPad /\ LinkGone(h) /\ Fault

\* A DS3 opens the control channel, and may open the interrupt channel too.
PadRequests(h, ch) ==
    LET p == link[h] IN
    /\ p \in Pads \ DS4Pads /\ chan[p][ch] = "closed" /\ acl[h] = <<>>
    /\ ch = "intr" => chan[p]["ctrl"] \in Types
    /\ chan' = [chan EXCEPT ![p][ch] = "asked"]
    /\ acl' = [acl EXCEPT ![h] = Append(@, Pkt("ConnReq", ch, "DS3", p))]
    /\ UNCHANGED <<driver, hci, link, bounds>>

PadReports(h) ==
    LET p == link[h] IN
    /\ p # NoPad /\ chan[p]["intr"] \in Types /\ acl[h] = <<>>
    /\ acl' = [acl EXCEPT ![h] = <<Pkt("Report", "intr", chan[p]["intr"], p)>>]
    /\ UNCHANGED <<driver, hci, link, chan, bounds>>

\* A pad that is switched off closes its channels and then its link.
PadLeaves(h) ==
    LET p == link[h] IN
    /\ p # NoPad /\ chan[p]["intr"] \in Types /\ acl[h] = <<>>
    /\ acl' = [acl EXCEPT ![h] = <<Pkt("DiscReq", "intr", chan[p]["intr"], p)>>]
    /\ chan' = [chan EXCEPT ![p]["intr"] = "closed"]
    /\ hci' = hci \cup {OfHandle("down", h)}
    /\ Fault
    /\ UNCHANGED <<driver, link, pages, plugs>>

-----------------------------------------------------------------------------
PadEvent ==
    \/ \E p \in Pads : ConnectRequest(p) \/ RemoteNameComplete(p)
    \/ \E p \in Pads, h \in Handles : ConnectComplete(p, h) \/ DisconnComplete(p, h)

Next ==
    \/ bt_connect \/ bt_config_set \/ bt_disconnect
    \/ \E ok \in BOOLEAN : CommandComplete(ok)
    \/ PadEvent
    \/ \E h \in Handles : L2capEvent(h) \/ L2capError(h)
    \/ ds34bt_reset
    \/ \E p \in Pads : Page(p) \/ LinkUp(p) \/ LinkFails(p)
    \/ \E h \in Handles : \/ LinkDown(h) \/ LinkLost(h) \/ PadReports(h) \/ PadLeaves(h)
                          \/ \E ch \in Channels : PadRequests(h, ch)

Spec == Init /\ [][Next]_vars

\* What the hardware is trusted with: events and packets that wait are
\* delivered, a link that is being closed closes, a pad whose interrupt
\* channel is open keeps sending reports, and the RPC thread runs.
Fairness ==
    /\ WF_vars(PadEvent \/ \E h \in Handles : LinkDown(h))
    /\ \A h \in Handles : WF_vars(L2capEvent(h) \/ PadReports(h))
    /\ WF_vars(ResetStore \/ ResetWait)

FairSpec == Spec /\ Fairness

-----------------------------------------------------------------------------
\* Every variable keeps its type.
TypeOK ==
    /\ boot \in Boots
    /\ slot \in [Slots -> [handle : Handles \cup {NoHandle}, bdaddr : Pads \cup {NoPad},
                           type : Types, fake : BOOLEAN, status : SUBSET Flags,
                           scid : [Channels -> Pads \cup {NoPad}]]]
    /\ rpc \in [pc : {"idle", "store", "wait", "done"}, pad : Slots, loaded : SUBSET Flags]
    /\ torn \in BOOLEAN /\ taken \in BOOLEAN
    /\ hci \subseteq HciItems
    /\ link \in [Handles -> Pads \cup {NoPad}]
    /\ acl \in [Handles -> Seq(Packets)]
    /\ chan \in [Pads -> [Channels -> Types \cup {"closed", "asked"}]]
    /\ pages \in 0 .. MaxPages /\ plugs \in 0 .. MaxPlugs /\ faults \in 0 .. MaxFaults

\* A slot that says RUNNING has a link, or the event that will clear it is on
\* its way: no disconnection, link loss or removal of the adapter leaves a
\* slot running for good.  (It can after ds34bt_reset has stored a status it
\* loaded before a callback changed it.)
RunningHasLink ==
    /\ TypeOK
    /\ ~torn => \A i \in Slots : IsRunning(i) =>
           \E h \in Handles : /\ slot[i].handle = h
                              /\ link[h] # NoPad \/ EndDue(h)

\* Two slots never hold the same connection handle: a packet or an event
\* that names a handle concerns one pad, whatever slots were reused before.
OneSlotPerLink ==
    \A i, j \in Slots : slot[i].handle = slot[j].handle /\ slot[i].handle # NoHandle => i = j

\* As long as no pad is given the slot of another one that is being set up,
\* links and slots agree: every link that has been reported to the driver,
\* and is not being closed, has its slot, and a running slot carries the pad
\* whose address it holds, whatever ds34bt_reset stores meanwhile.
SlotFollowsLink ==
    ~taken =>
        /\ \A h \in Handles :
               link[h] # NoPad /\ (\A e \in hci : e.handle # h) => SlotsOn(h) # {}
        /\ \A i \in Slots, h \in Handles :
               IsRunning(i) /\ slot[i].handle = h /\ link[h] # NoPad => slot[i].bdaddr = link[h]

\* ds34bt_reset returns: every pad it waits for is disconnected, whatever the
\* pads, the links and the adapter do meanwhile, unless its own store or a
\* slot taken over has left a status that no pad stands behind.
ResetReturns == rpc.pc = "store" ~> (rpc.pc = "done" \/ torn \/ taken)
=============================================================================
