------------------------------ MODULE VaultIndex ------------------------------
(***************************************************************************)
(* The index of the vault and its live graph (vault/indexer.py,            *)
(* vault/events.py, vault/cron.py, api/vault_routes.py, static/vault/      *)
(* graph.js).  A reindex scans the files, reads the rows, and in one       *)
(* transaction writes a row per changed file and deletes those of files    *)
(* that are gone, each with an event on the bus of its own process as soon *)
(* as it is flushed, before the commit.  The API runs one on request, the  *)
(* worker one by cron; a page follows the events of the API's bus, and     *)
(* asks REST for the graph while its socket has brought none.  The title   *)
(* stands for all of a row that is made from its file (type, tags, links). *)
(***************************************************************************)
EXTENDS Integers, Sequences, FiniteSets

CONSTANTS
  Notes,      \* paths of notes
  Texts,      \* bound: a file's text but for the title
  Titles,     \* bound: titles a file gives
  Gone,       \* a file, a row or a node that is not there
  Indexers,   \* reindex runs at a time
  MaxIds,     \* bound: rows ever inserted
  MaxQueue    \* bound: events that wait for the page

ASSUME VaultAssumption ==
  /\ IsFiniteSet(Notes) /\ MaxIds \in Nat /\ MaxQueue \in Nat
  /\ Gone \notin Titles /\ Gone \notin [text: Texts, title: Titles]

VARIABLES
  rows,       \* the vault_note rows, committed
  ids,        \* rows inserted so far
  ix,         \* the reindex runs
  page,       \* a page of the graph, its web socket, timers and REST request
  missed      \* why the page may differ from the index (not in the code)

vaultVars == <<rows, ids, ix, page, missed>>

File == [text: Texts, title: Titles] \cup {Gone}
Node == Titles \cup {Gone}
TitleOf(file) == IF file = Gone THEN Gone ELSE file.title

\* The hash is of the whole file; the title is a column of its own.
Row == [id: 0..MaxIds, hash: File, title: Node]
NoRow == [id |-> 0, hash |-> Gone, title |-> Gone]
Nothing == [n \in Notes |-> Gone]
NoRows == [n \in Notes |-> NoRow]
Event == [note: Notes, title: Node]
Still == [pc |-> "idle", place |-> "api", scan |-> Nothing, old |-> NoRows, done |-> {}, alone |-> FALSE]

VaultTypeOK ==
  /\ rows \in [Notes -> Row] /\ ids \in 0..MaxIds
  /\ ix \in [Indexers -> [pc: {"idle", "read", "index"}, place: {"api", "worker"},
                          scan: [Notes -> File], old: [Notes -> Row],
                          done: SUBSET Notes, alone: BOOLEAN]]
  /\ page \in [pc: {"off", "sent", "live"}, nodes: [Notes -> Node], queue: Seq(Event),
               fading: SUBSET Notes, rest: {"none", "asked", "read"}, answer: [Notes -> Node]]
  /\ missed \in BOOLEAN

VaultInit ==
  /\ rows = NoRows /\ ids = 0 /\ ix = [i \in Indexers |-> Still]
  /\ page = [pc |-> "off", nodes |-> Nothing, queue |-> <<>>, fading |-> {},
             rest |-> "none", answer |-> Nothing]
  /\ missed = FALSE

\* reindex: POST /v1/vault/reindex in the API, reindex_job in the worker; scan finds
\* whatever the owner's Obsidian, write_report, write_vault_doc or a deletion has left.
StartIndex(i) ==
  /\ ix[i].pc = "idle"
  /\ \E place \in {"api", "worker"}, files \in [Notes -> File] :
       ix' = [j \in Indexers |->
         IF j = i THEN [Still EXCEPT !.pc = "read", !.place = place, !.scan = files,
                                     !.alone = \A k \in Indexers : ix[k].pc = "idle"]
         ELSE [ix[j] EXCEPT !.alone = FALSE]]
  /\ UNCHANGED <<rows, ids, page, missed>>

ReadRows(i) ==
  /\ ix[i].pc = "read"
  /\ ix' = [ix EXCEPT ![i].pc = "index", ![i].old = rows]
  /\ UNCHANGED <<rows, ids, page, missed>>

\* (mutant) the hash is not compared
ChangedIsNew(x) == {n \in Notes : x.scan[n] # Gone /\ x.old[n].id = 0}

Changed(x) == {n \in Notes : x.scan[n] # Gone /\ x.old[n].hash # x.scan[n]}
Removed(x) == {n \in Notes : x.scan[n] = Gone /\ x.old[n].id # 0}

\* The title of the row after the flush: a column that the run finds as it has read it
\* is not written, and keeps what another run has written meanwhile.
TitleFlushed(x, n) ==
  IF x.old[n].title = TitleOf(x.scan[n]) THEN rows[n].title ELSE TitleOf(x.scan[n])

\* The event goes out and the index will not be, or is not, what it says, or the page
\* is between its snapshot and its subscription.
Strays(x, n) ==
  x.place = "api" /\ \/ page.pc = "sent" \/ rows[n].id # x.old[n].id
                     \/ TitleFlushed(x, n) # TitleOf(x.scan[n])

\* (mutant) a removal is not announced
EmittedUnlessGone(x, n) ==
  /\ x.place = "api" /\ page.pc = "live" => Len(page.queue) < MaxQueue
  /\ page' = IF x.place = "api" /\ page.pc = "live" /\ x.scan[n] # Gone
             THEN [page EXCEPT !.queue = Append(@, [note |-> n, title |-> TitleOf(x.scan[n])])] ELSE page
  /\ missed' = (missed \/ Strays(x, n))

\* _emit: to the subscribers of this process only, with the title this run has parsed
Emitted(x, n) ==
  /\ x.place = "api" /\ page.pc = "live" => Len(page.queue) < MaxQueue
  /\ page' = IF x.place = "api" /\ page.pc = "live"
             THEN [page EXCEPT !.queue = Append(@, [note |-> n, title |-> TitleOf(x.scan[n])])] ELSE page
  /\ missed' = (missed \/ Strays(x, n))

\* One row is flushed and announced.  A row that another run has written waits for
\* its end; an insert of a path that exists by then, or an update of a row that does
\* not, is an error that rolls the run back, and a removal of one deletes nothing.
IndexNote(i) ==
  LET x == ix[i]
  IN /\ x.pc = "index"
     /\ \E n \in (Changed(x) \cup Removed(x)) \ x.done :
          /\ n \in Removed(x) => Changed(x) \subseteq x.done
          /\ rows[n].id = x.old[n].id => \A j \in Indexers \ {i} : n \notin ix[j].done
          /\ n \in Changed(x) => rows[n].id = x.old[n].id
          /\ ix' = [ix EXCEPT ![i].done = @ \cup {n}]
          /\ Emitted(x, n)
     /\ UNCHANGED <<rows, ids>>

CommitIndex(i) ==
  LET x == ix[i]
      new == {n \in x.done : x.old[n].id = 0}
      fresh == CHOOSE f \in [new -> ids + 1 .. ids + Cardinality(new)] :
                 \A a, b \in new : f[a] = f[b] => a = b
  IN /\ x.pc = "index" /\ x.done = Changed(x) \cup Removed(x)
     /\ ids + Cardinality(new) <= MaxIds
     /\ rows' = [n \in Notes |->
          CASE n \in x.done \cap Changed(x) ->
                 [id |-> IF n \in new THEN fresh[n] ELSE x.old[n].id,
                  hash |-> x.scan[n], title |-> TitleFlushed(x, n)]
            [] n \in x.done \cap Removed(x) /\ rows[n].id = x.old[n].id -> NoRow
            [] OTHER -> rows[n]]
     /\ ids' = ids + Cardinality(new)
     /\ ix' = [ix EXCEPT ![i] = Still]
     /\ missed' = (missed \/ (x.place = "worker" /\ x.done # {}))
     /\ UNCHANGED page

\* The embedding, the database or the process fails: what was announced is rolled back.
Abort(i) ==
  /\ ix[i].pc # "idle"
  /\ ix' = [ix EXCEPT ![i] = Still]
  /\ missed' = (missed \/ ix[i].done # {})
  /\ UNCHANGED <<rows, ids, page>>

\* graph_snapshot
Snapshot == [n \in Notes |-> rows[n].title]

\* ws_vault: the snapshot is read and sent (applySnapshot replaces what is shown,
\* running fades aside), the subscription follows.
Connect ==
  /\ page.pc = "off"
  /\ page' = [page EXCEPT !.pc = "sent", !.nodes = Snapshot]
  /\ missed' = (page.fading # {} \/ \E i \in Indexers : ix[i].done # {})
  /\ UNCHANGED <<rows, ids, ix>>

Subscribe ==
  /\ page.pc = "sent"
  /\ page' = [page EXCEPT !.pc = "live"]
  /\ UNCHANGED <<rows, ids, ix, missed>>

\* applyEvent: a node fades for half a second before it is deleted.
Deliver ==
  /\ page.pc = "live" /\ page.queue # <<>>
  /\ LET e == Head(page.queue)
         rest == [page EXCEPT !.queue = Tail(@)]
     IN /\ page' = IF e.title # Gone THEN [rest EXCEPT !.nodes[e.note] = e.title]
                   ELSE IF page.nodes[e.note] = Gone THEN rest
                   ELSE [rest EXCEPT !.fading = @ \cup {e.note}]
        /\ missed' = (missed \/ (e.title # Gone /\ e.note \in page.fading))
  /\ UNCHANGED <<rows, ids, ix>>

Faded ==
  /\ \E n \in page.fading :
       page' = [page EXCEPT !.fading = @ \ {n}, !.nodes[n] = Gone]
  /\ UNCHANGED <<rows, ids, ix, missed>>

\* The socket closes, and the page tries again; a REST request stays under way.
Disconnect ==
  /\ page.pc # "off"
  /\ page' = [page EXCEPT !.pc = "off", !.queue = <<>>]
  /\ UNCHANGED <<rows, ids, ix, missed>>

\* loadSnapshotRest: on loading, and when three seconds have brought no snapshot (it may
\* be on its way).  Bound: one request at a time.
AskRest ==
  /\ page.pc # "live" /\ page.rest = "none"
  /\ page' = [page EXCEPT !.rest = "asked"]
  /\ UNCHANGED <<rows, ids, ix, missed>>

ReadRest ==
  /\ page.rest = "asked"
  /\ page' = [page EXCEPT !.rest = "read", !.answer = Snapshot]
  /\ UNCHANGED <<rows, ids, ix, missed>>

\* What the answer says otherwise than the page, when no event or fade is to settle it.
Overwritten ==
  {n \in Notes \ page.fading : page.answer[n] # page.nodes[n]
                             /\ \A k \in DOMAIN page.queue : page.queue[k].note # n}

\* The answer replaces what is shown, however old it is by now; or the request fails.
EndRest ==
  /\ \/ /\ page.rest = "read"
        /\ page' = [page EXCEPT !.rest = "none", !.answer = Nothing, !.nodes = page.answer]
        /\ missed' = (missed \/ (page.pc # "off" /\ Overwritten # {}))
     \/ /\ page.rest # "none"
        /\ page' = [page EXCEPT !.rest = "none", !.answer = Nothing]
        /\ missed' = missed
  /\ UNCHANGED <<rows, ids, ix>>

VaultNext ==
  \/ Connect \/ Subscribe \/ Deliver \/ Faded \/ Disconnect
  \/ AskRest \/ ReadRest \/ EndRest
  \/ \E i \in Indexers : StartIndex(i) \/ ReadRows(i) \/ IndexNote(i) \/ CommitIndex(i) \/ Abort(i)
VaultSpec == VaultInit /\ [][VaultNext]_vaultVars

----------------------------------------------------------------------------

\* A reindex that nothing overlaps repairs what aborted and overlapping runs, some of an
\* older scan, have left: every row is then of the file it has scanned, by its hash, and
\* every row it has written is that file's in all columns.  A row that overlapping runs
\* have mixed and whose hash is the file's is skipped and stays mixed.
IndexRepairs ==
  [][\A i \in Indexers : CommitIndex(i) /\ ix[i].alone =>
       \A n \in Notes :
         /\ rows'[n].hash = ix[i].scan[n]
         /\ rows'[n] = rows[n] \/ rows'[n].title = TitleOf(ix[i].scan[n])]_vaultVars

\* docs/10: the page follows every change.  When all that was sent has arrived and no
\* run is half-way, it shows the index, except after: a commit of the worker, whose bus
\* no page hears; a roll-back of announced changes; a change between snapshot and
\* subscription; a note re-added while it fades; a removal of a row that another run had
\* removed before; a row mixed from two runs; a REST answer older than the page.
PageShowsIndex ==
  page.pc = "live" /\ page.queue = <<>> /\ page.fading = {} /\ ~missed
    /\ (\A i \in Indexers : ix[i].done = {}) => page.nodes = Snapshot

=============================================================================
