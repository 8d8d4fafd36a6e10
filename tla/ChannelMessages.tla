------------------------------- MODULE ChannelMessages -------------------------------
(***************************************************************************)
(* Messages of a server's channel: ChannelMessagingService lists,          *)
(* sends, edits and deletes.                                               *)
(***************************************************************************)
EXTENDS MessageWrites

GetMessagesByChannelId(r, p, l) == GetPage(r, p, l)

(* sort({createdAt: -1}) decides nothing between equal creation times.       *)
ChannelFetch(r) == (\E order \in ByCreation(message) : FetchFromDB(r, order)) \/ FetchFails(r)

(* A page with a fallback profile (User_<id>) is answered but not cached.    *)
ChannelSkipStore(r) == req[r] # None /\ req[r].items # << >> /\ NotCached(r)

PrewarmChannelCache(r) == Prewarm(r)

ChannelRequest(r, pages) ==
  \/ \E p \in pages, l \in Limits : GetMessagesByChannelId(r, p, l)
  \/ 0 \in pages /\ PrewarmChannelCache(r)
ChannelFetching(r) == ChannelFetch(r) \/ ChannelSkipStore(r)

CreateMessage(w) == InsertMessage(w)

(* editMessage asks who sent the message and not whether it was deleted.     *)
ChannelEdit(w) == \E m \in DOMAIN message : FindMessage(w, m, "edit")
ChannelDelete(w) == \E m \in DOMAIN message : FindMessage(w, m, "delete")

ChannelWrite(w) == CreateMessage(w) \/ ChannelEdit(w) \/ ChannelDelete(w)
ChannelStep(w) == SaveMessage(w) \/ Invalidating(w)
==========================================================================
