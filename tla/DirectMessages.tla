-------------------------------- MODULE DirectMessages --------------------------------
(***************************************************************************)
(* Messages of a conversation of two: DirectMessagingService lists,        *)
(* sends, edits and deletes.                                               *)
(***************************************************************************)
EXTENDS MessageWrites

ListMessages(r, p, l) == GetPage(r, p, l)  \* asked by one of the two

DirectFetch(r) ==
  (\E order \in ByCreationAndId(message) : FetchFromDB(r, order)) \/ FetchFails(r)

PrewarmConversationCache(r) == Prewarm(r)

DirectRequest(r, pages) ==
  \/ \E p \in pages, l \in Limits : ListMessages(r, p, l)
  \/ 0 \in pages /\ PrewarmConversationCache(r)

SendMessage(w) == InsertMessage(w)

DirectEdit(w) == \E m \in DOMAIN message : ~message[m].gone /\ FindMessage(w, m, "edit")

(* A message that is gone is answered as it is.                              *)
DirectDelete(w) == \E m \in DOMAIN message : ~message[m].gone /\ FindMessage(w, m, "delete")

DirectWrite(w) == SendMessage(w) \/ DirectEdit(w) \/ DirectDelete(w)
DirectStep(w) == SaveMessage(w) \/ Invalidating(w)
==========================================================================
