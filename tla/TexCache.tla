------------------------------ MODULE TexCache ------------------------------
(***************************************************************************)
(* One cache of game art (src/src/texcache.c).  While a game is drawn the  *)
(* GUI thread asks the cache for its picture in every frame                *)
(* (cacheGetTexture); a missing one is loaded by the I/O worker            *)
(* (cacheLoadImage) into an entry that lru_evict hands out.                *)
(*                                                                         *)
(* The list of lru_cache_t is the sequence of its entries, most recently   *)
(* used first.  The writes of lru_move_to_front through a node that is not *)
(* linked are not modelled: as FreeSlotIsUsed shows, no behaviour reaches  *)
(* them.  Left out: the pixels, the names of the files, lack of memory,    *)
(* and the destruction of a cache.                                         *)
(***************************************************************************)
EXTENDS Integers, Sequences, SequencesExt

CONSTANTS
  Count,      \* entries of the cache
  PoolSize,   \* TEXCACHE_POOL_SIZE
  Games,      \* the games of the list
  Delay,      \* list->delay
  MaxFrame    \* bound, at least Delay: guiFrameId and guiInactiveFrames stop here

VARIABLES
  content,            \* the entries: [loading, lastUsed, UID]
  nextUID,
  lru,                \* indices of the entries linked in the LRU list
  requests,           \* the load requests queued on the worker
  cacheId, UID,       \* item->cache_id and item->cache_uid of each game
  shown,              \* the game whose picture is drawn
  guiFrameId, guiInactiveFrames

gui   == <<shown, guiFrameId, guiInactiveFrames>>
items == <<cacheId, UID>>
vars  == <<content, nextUID, lru, requests, items, gui>>

Entries == 0 .. Count - 1

(* cacheClearItem                                                          *)
Cleared == [loading |-> FALSE, lastUsed |-> -1, UID |-> 0]

(* cacheInitCache with lru_init                                            *)
Init ==
  /\ content = [e \in Entries |-> Cleared] /\ nextUID = 1 /\ lru = << >>
  /\ requests = << >>
  /\ cacheId = [g \in Games |-> -1] /\ UID = [g \in Games |-> -1]
  /\ shown \in Games /\ guiFrameId = 0 /\ guiInactiveFrames = 0

Capped(n) == IF n < MaxFrame THEN n + 1 ELSE n

lru_move_to_front(s, e) == <<e>> \o SelectSeq(s, LAMBDA x : x # e)

(* The entry used longest ago, and of several the nearest to the end.  The *)
(* nodes behind it leave the list with it.                                 *)
Oldest ==
  CHOOSE k \in DOMAIN lru : \A j \in DOMAIN lru :
    \/ content[lru[k]].lastUsed < content[lru[j]].lastUsed
    \/ content[lru[k]].lastUsed = content[lru[j]].lastUsed /\ k >= j
lru_evict == lru' = SubSeq(lru, 1, Oldest - 1)

-----------------------------------------------------------------------------
(* cacheGetTexture for the game drawn in this frame.                       *)

Entry == content[cacheId[shown]]
Known == cacheId[shown] >= 0
Current == Known /\ Entry.UID = UID[shown]

(* The picture is there.                                                   *)
Hit ==
  /\ Current /\ ~Entry.loading /\ Entry.lastUsed > 0
  /\ content' = [content EXCEPT ![cacheId[shown]].lastUsed = guiFrameId]
  /\ lru' = IF cacheId[shown] \in Range(lru) THEN lru_move_to_front(lru, cacheId[shown]) ELSE lru
  /\ UNCHANGED <<nextUID, requests, items>>

(* Its load has failed: it is not asked for again through this entry.      *)
Failed ==
  /\ Current /\ ~Entry.loading /\ Entry.lastUsed = 0
  /\ cacheId' = [cacheId EXCEPT ![shown] = -2]
  /\ UNCHANGED <<content, nextUID, lru, requests, UID>>

Missing == Current => Entry.loading \/ Entry.lastUsed < 0
Forgotten == [cacheId EXCEPT ![shown] = IF Known THEN -1 ELSE @]

(* The cursor has not rested long enough, or lru_evict gives no entry.     *)
TooSoon ==
  /\ Missing /\ (guiInactiveFrames < Delay \/ lru = << >>)
  /\ cacheId' = Forgotten
  /\ UNCHANGED <<content, nextUID, lru, requests, UID>>

(* lru_evict gives an entry, but no request is free.                       *)
PoolEmpty ==
  /\ Missing /\ guiInactiveFrames >= Delay /\ lru # << >> /\ Len(requests) = PoolSize
  /\ lru_evict
  /\ cacheId' = Forgotten
  /\ UNCHANGED <<content, nextUID, requests, UID>>

(* lru_evict gives an entry, and its load is queued.                       *)
StartLoad ==
  /\ Missing /\ guiInactiveFrames >= Delay /\ lru # << >> /\ Len(requests) < PoolSize
  /\ lru_evict
  /\ LET e == lru[Oldest] IN
       /\ content' = [content EXCEPT ![e] = [Cleared EXCEPT !.loading = TRUE, !.UID = nextUID]]
       /\ requests' = Append(requests, [entry |-> e, UID |-> nextUID])
       /\ cacheId' = [cacheId EXCEPT ![shown] = e]
       /\ UID' = [UID EXCEPT ![shown] = nextUID]
  /\ nextUID' = nextUID + 1

cacheGetTexture == Hit \/ Failed \/ TooSoon \/ PoolEmpty \/ StartLoad

(* A frame with no key pressed, and one in which the cursor moves.         *)
Frame ==
  /\ cacheGetTexture
  /\ guiFrameId' = Capped(guiFrameId)
  /\ guiInactiveFrames' = Capped(guiInactiveFrames)
  /\ UNCHANGED shown

Move ==
  /\ cacheGetTexture
  /\ guiFrameId' = Capped(guiFrameId)
  /\ guiInactiveFrames' = 0
  /\ shown' \in Games \ {shown}

(* cacheLoadImage on the worker: the file is read, or there is none; a     *)
(* request whose entry was given to another picture is dropped.            *)
cacheLoadImage ==
  /\ requests # << >>
  /\ requests' = Tail(requests)
  /\ LET e == Head(requests).entry IN
       IF Head(requests).UID # content[e].UID THEN UNCHANGED <<content, lru>>
       ELSE \/ /\ content' = [content EXCEPT ![e].lastUsed = 0, ![e].loading = FALSE]
               /\ UNCHANGED lru
            \/ /\ content' = [content EXCEPT ![e].lastUsed = guiFrameId, ![e].loading = FALSE]
               /\ lru' = lru_move_to_front(lru, e)
  /\ UNCHANGED <<nextUID, items, gui>>

Next == Frame \/ Move \/ cacheLoadImage

Spec == Init /\ [][Next]_vars /\ WF_vars(Frame) /\ WF_vars(cacheLoadImage)

-----------------------------------------------------------------------------
(* If the cursor rests on a game and the delay passes while the cache has  *)
(* a free entry (lastUsed < 0), the picture of that game is asked for from *)
(* the device.                                                             *)
FreeSlotIsUsed ==
  \A g \in Games : <>[](shown = g) /\ []<>(\E e \in Entries : content[e].lastUsed < 0)
                     => <>(\E k \in DOMAIN requests : requests[k].UID = UID[g])
=============================================================================
