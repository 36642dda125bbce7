------------------------------ MODULE HlsTables ------------------------------
(* The two tables behind a stream: its session (hls_stream.c) and its        *)
(* fragment memory (hls_mpegts.c), with the playlist.  Both are arrays of    *)
(* cells scanned from the front; the rows of the multi-hash that they once   *)
(* were are walked one after the other, cell by cell.  A cell whose videoid  *)
(* is 0 is free; what else is in a freed cell stays there.                   *)
(*                                                                           *)
(* Of the fragments only this is kept: whose fragments the playlist of a     *)
(* cell lists, and whether the session has listed any since it was created.  *)
(* HlsFragments has the rest.                                                *)
EXTENDS Integers, FiniteSets, FiniteSetsExt

CONSTANTS SlotNum,     \* hashtime * hashlen, the same for both tables
          Video        \* video ids, never 0

ASSUME TablesAssumption == SlotNum \in Nat \ {0} /\ Video \subseteq Nat \ {0}

Slot == 1 .. SlotNum
NULL == 0              \* no video, no cell

VARIABLES sessions,    \* hls_session_t: videoid, fragmem, a fragment listed?
          fragmems     \* hls_fragmem_t: videoid, whose playlist it has

tables == <<sessions, fragmems>>

Session == [videoid : Video \cup {NULL}, fragmem : Slot \cup {NULL}, listed : BOOLEAN]
Fragmem == [videoid : Video \cup {NULL}, playlist : Video \cup {NULL}]

(* hls_get_cache clears the memory of a table whenever the process starts. *)
NoSession == [videoid |-> NULL, fragmem |-> NULL, listed |-> FALSE]
ClearTables(s, m) == /\ s = [i \in Slot |-> NoSession]
                     /\ m = [i \in Slot |-> [videoid |-> NULL, playlist |-> NULL]]
-----------------------------------------------------------------------------
(* hls_cache_session_get, hls_cache_mpegts_get: the first of these cells, a  *)
(* free one or one of v, whichever comes first.                              *)
OpenTo(table, v) == {i \in Slot : table[i].videoid \in {v, NULL}}

(* hls_cache_session_search, hls_cache_mpegts_search: the first of these. *)
CellsOf(table, v) == {i \in Slot : table[i].videoid = v}

(* The memory a player of v is served from. *)
Found(v) == CellsOf(fragmems, v) # {}
search(v) == Min(CellsOf(fragmems, v))

(* What hls_create_session returns. *)
Created(v) == IF OpenTo(sessions, v) = {} \/ OpenTo(fragmems, v) = {}
              THEN NULL ELSE Min(OpenTo(sessions, v))

(* A creation that does not reset the session it finds. *)
CreateKeepsSession(v, cut) ==
  /\ Created(v) # NULL
  /\ LET m == Min(OpenTo(fragmems, v))
     IN  /\ sessions' = [sessions EXCEPT ![Created(v)].videoid = v,
                                         ![Created(v)].fragmem = m]
         /\ fragmems' = [fragmems EXCEPT ![m] =
                           [videoid |-> v, playlist |-> IF cut THEN v ELSE @.playlist]]

(* hls_create_session that succeeds, and whether the handler that called it  *)
(* goes on to close a fragment.                                              *)
Create(v, cut) ==
  /\ Created(v) # NULL
  /\ LET m == Min(OpenTo(fragmems, v))
     IN  /\ sessions' = [sessions EXCEPT ![Created(v)] =
                           [videoid |-> v, fragmem |-> m, listed |-> cut]]
         /\ fragmems' = [fragmems EXCEPT ![m] =
                           [videoid |-> v, playlist |-> IF cut THEN v ELSE @.playlist]]

(* hls_create_session that fails: without a cell for the session nothing     *)
(* changes; without one for its memory the session's is freed again.         *)
CreateFails(v) ==
  /\ Created(v) = NULL
  /\ sessions' = IF OpenTo(sessions, v) = {} THEN sessions
                 ELSE [sessions EXCEPT ![Min(OpenTo(sessions, v))] = NoSession]
  /\ UNCHANGED fragmems

(* A frame written through the session of cell i; cut if it closes a         *)
(* fragment, so that hls_write_playlist lists the session's own.             *)
Write(i, cut) ==
  IF cut THEN /\ sessions' = [sessions EXCEPT ![i].listed = TRUE]
              /\ fragmems' = [fragmems EXCEPT ![sessions[i].fragmem].playlist =
                                sessions[i].videoid]
         ELSE UNCHANGED tables

(* A clean that forgets the fragment memory. *)
CleanSessionsOnly(V) ==
  /\ sessions' = [i \in Slot |->
       IF sessions[i].videoid \in V /\ i = Min(CellsOf(sessions, sessions[i].videoid))
       THEN [sessions[i] EXCEPT !.videoid = NULL] ELSE sessions[i]]
  /\ UNCHANGED fragmems

(* hls_clean_timeout_stream for each of the videos V: the first cell of the  *)
(* video in each table.  The code tests the session where it means the       *)
(* fragment memory.                                                          *)
Clean(V) ==
  /\ sessions' = [i \in Slot |->
       IF sessions[i].videoid \in V /\ i = Min(CellsOf(sessions, sessions[i].videoid))
       THEN [sessions[i] EXCEPT !.videoid = NULL] ELSE sessions[i]]
  /\ fragmems' = [i \in Slot |->
       IF /\ fragmems[i].videoid \in V /\ i = Min(CellsOf(fragmems, fragmems[i].videoid))
          /\ CellsOf(sessions, fragmems[i].videoid) # {}
       THEN [fragmems[i] EXCEPT !.videoid = NULL] ELSE fragmems[i]]
-----------------------------------------------------------------------------
(* The two tables go together, cell by cell: the cells of a video have the   *)
(* same numbers in both, and a session writes into the memory of its own     *)
(* number.  Nothing in the code ties them but that both are always changed   *)
(* by the same calls; the pointer that hls_clean_timeout_stream does not     *)
(* test, and what a player of one stream gets to see, hang on it.            *)
TablesAgree ==
  \A i \in Slot : /\ sessions[i].videoid = fragmems[i].videoid
                  /\ sessions[i].videoid # NULL => sessions[i].fragmem = i

(* A playlist found for a video lists that video's fragments, once its       *)
(* session has listed any: a cell taken over from another stream shows the   *)
(* other's playlist only until the first fragment is closed                  *)
(* (hls_create_session does not clear the memory).                           *)
PlaylistOfOwner ==
  \A i \in Slot : sessions[i].videoid # NULL /\ sessions[i].listed =>
                    fragmems[i].playlist = sessions[i].videoid
=============================================================================
