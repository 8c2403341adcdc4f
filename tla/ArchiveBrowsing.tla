--------------------------- MODULE ArchiveBrowsing ---------------------------
(***************************************************************************)
(* A reader scrolls through the archive (archive-browser.tsx and           *)
(* src/src/app/archive/_data.ts) or through an artist's works              *)
(* (src/src/app/profile/[profile]/_browser.tsx and _data.ts) while the     *)
(* works are being saved.                                                  *)
(*                                                                         *)
(* A page is read where the cursor stands, page after page, from a table   *)
(* in which every write moves a work; a page is asked for when the end of  *)
(* the list comes into view, by clicks, and by the timer of a pause that   *)
(* the server asked for.  Works are numbered in the order of their ids;    *)
(* time is the number of the write.                                        *)
(***************************************************************************)
EXTENDS Naturals, Sequences, FiniteSets, FiniteSetsExt

CONSTANTS
    Readings,       \* the worlds to consider, each with its own bounds
    PageSize        \* ARCHIVE_PAGE_SIZE, PROFILE_PAGE_SIZE

HalfStatuses == {"PENDING", "DOWNLOADED", "PINNED", "FAILED", "SKIPPED"}

\* The two halves of a work, each with whether a root is linked to it.  A half
\* without one is SKIPPED; an ingest whose source does not name a root leaves the
\* link of an older one and marks the half SKIPPED all the same.
Linked(status) == [root |-> TRUE, status |-> status]
Unlinked == [root |-> FALSE, status |-> "SKIPPED"]
Half == {Linked(status) : status \in HalfStatuses} \cup {Unlinked}
Halves == Half \X Half

\* kind tells the two pages apart, "none" has no reader.  rows are the works
\* at the start, titles their titles, becomes what a write makes of a work.
\* writes, moves and mishaps bound the writes, the navigations and refreshes,
\* and the requests that fail.
Reading == [kind : {"archive", "profile", "none"}, sort : STRING,
            filters : SUBSET STRING, rows : Seq(Nat), titles : Seq(Nat),
            becomes : SUBSET Halves, writes : Nat, moves : Nat, mishaps : Nat]

ASSUME BrowsingAssumption ==
    /\ Readings \subseteq Reading
    /\ \A r \in Readings : DOMAIN r.rows = DOMAIN r.titles
    /\ PageSize \in Nat \ {0}

VARIABLES
    reading,    \* the world: it never changes
    table,      \* the works: when they were written last (0: not there), halves
    inView,     \* the end of the list is in view
    session,    \* what the mounted browser holds
    request,    \* the request for the next page
    moving,     \* the page that is about to be shown instead
    tally       \* events counted against the bounds

browsingVars == <<reading, table, inView, session, request, moving, tally>>

-----------------------------------------------------------------------------
(* Which works a page shows.  A row is the pair of its halves.             *)

HasRoots(halves) == \E i \in 1..2 : halves[i].root
Both(halves, S) == \A i \in 1..2 : halves[i].root => halves[i].status \in S
FailedWhere(halves) == \E i \in 1..2 : halves[i].status = "FAILED"
PreservedWhere(halves) == Both(halves, {"PINNED"})
\* Mutant: works that are saved count as partly saved, too.
PartialOrPreserved(halves) ==
    ~ FailedWhere(halves) /\ Both(halves, {"DOWNLOADED", "PINNED"})

PartialWhere(halves) == /\ ~ FailedWhere(halves)
                        /\ ~ PreservedWhere(halves)
                        /\ Both(halves, {"DOWNLOADED", "PINNED"})
PendingWhere(halves) == /\ ~ FailedWhere(halves)
                        /\ ~ PreservedWhere(halves)
                        /\ ~ PartialWhere(halves)
                        /\ Linked("PENDING") \in {halves[1], halves[2]}

buildStatusWhere(filter, halves) ==
    \/ filter = "all"
    \/ filter = "preserved" /\ PreservedWhere(halves)
    \/ filter = "partial" /\ PartialWhere(halves)
    \/ filter = "pending" /\ PendingWhere(halves)
    \/ filter = "failed" /\ FailedWhere(halves)
    \/ filter = "missing" /\ ~ HasRoots(halves)

buildArchivedWhere(filter, halves) ==
    (filter /= "missing" => HasRoots(halves)) /\ buildStatusWhere(filter, halves)

buildArtistArchivedWhere(view, halves) ==
    \/ view = "all"
    \/ view = "saved" /\ HasRoots(halves) /\ PreservedWhere(halves)
    \/ view = "syncing" /\ HasRoots(halves) /\ ~ PreservedWhere(halves)
    \/ view = "found" /\ ~ HasRoots(halves)

\* The status a card shows, by which the page filters its first works again.
archiveItemStatus(halves) ==
    IF ~ HasRoots(halves) THEN "missing"
    ELSE IF FailedWhere(halves) THEN "failed"
    ELSE IF Both(halves, {"PINNED"}) THEN "preserved"
    ELSE IF Both(halves, {"DOWNLOADED", "PINNED"}) THEN "partial"
    ELSE "pending"

Works == DOMAIN table

Matching(filter) ==
    {w \in Works : /\ table[w].at > 0
                   /\ IF reading.kind = "profile"
                      THEN buildArtistArchivedWhere(filter, table[w].halves)
                      ELSE buildArchivedWhere(filter, table[w].halves)}

-----------------------------------------------------------------------------
(* The order of the works, and where a cursor stands in it.                *)

Key(w) == IF reading.sort = "title" THEN reading.titles[w] ELSE table[w].at

\* buildArchiveOrderBy: ties are broken by the id, in the same direction.
Precedes(v, w) ==
    IF reading.sort = "newest"
    THEN Key(v) > Key(w) \/ (Key(v) = Key(w) /\ v > w)
    ELSE Key(v) < Key(w) \/ (Key(v) = Key(w) /\ v < w)

\* A cursor carries the key and the id of the last work of a page.
Start == [at |-> "start", key |-> 0, id |-> 0]
End == [at |-> "end", key |-> 0, id |-> 0]
CursorOf(w) == [at |-> "work", key |-> Key(w), id |-> w]

Beyond(key, cursor) == IF reading.sort = "newest" THEN key < cursor.key ELSE key > cursor.key
IdBeyond(w, cursor) == IF reading.sort = "newest" THEN w < cursor.id ELSE w > cursor.id

\* Mutant: the cursor looks at the key alone.
cursorWithoutTies(cursor, w) ==
    \/ cursor.at = "start"
    \/ cursor.at = "work" /\ Beyond(Key(w), cursor)

buildCursorWhere(cursor, w) ==
    \/ cursor.at = "start"
    \/ cursor.at = "work" /\ Beyond(Key(w), cursor)
    \/ cursor.at = "work" /\ Key(w) = cursor.key /\ IdBeyond(w, cursor)

\* One row more than a page is read, to tell whether there is a next page.
PageAt(filter, cursor) ==
    LET found == {w \in Matching(filter) : buildCursorWhere(cursor, w)}
        works == {w \in found : Cardinality({v \in found : Precedes(v, w)}) < PageSize}
        last == CHOOSE w \in works : \A v \in works \ {w} : Precedes(v, w)
    IN  [works |-> works,
         next |-> IF Cardinality(found) > PageSize THEN CursorOf(last) ELSE End]

-----------------------------------------------------------------------------
(* The list in the browser.                                                *)

\* key is what the session is mounted for; shown are the works in the list.
\* recent: the last answer is less than 500 ms old.  cool is the pause the
\* server asked for, timer what the resume timer waits for ({} without one).
\* due: an effect or an observer has yet to look whether to load.  all: "View
\* all" is under way.  steady (history): the works that were there when the
\* first page was read and have not been written since.
SessionOf(key, filter, first, steady) ==
    [key |-> key, filter |-> filter, shown |-> first.works, cursor |-> first.next,
     loading |-> FALSE, all |-> FALSE, error |-> FALSE, recent |-> FALSE,
     cool |-> "none", timer |-> {}, due |-> TRUE, steady |-> steady]

\* The resetKey of the two pages.
ArchiveKey(filter) == <<filter>>
ProfileKey(filter, first) == <<filter, first.next, Cardinality(first.works)>>

Mounted(filter, first, steady) ==
    SessionOf(IF reading.kind = "profile" THEN ProfileKey(filter, first) ELSE ArchiveKey(filter),
              filter, first, steady)

NoRequest == [state |-> "none", cursor |-> End, page |-> [works |-> {}, next |-> End]]
Staying == [state |-> "none", filter |-> "all", page |-> NoRequest.page, steady |-> {}]

BrowsingInit ==
    /\ reading \in Readings
    /\ table = [w \in DOMAIN reading.rows |->
                  [at |-> reading.rows[w], halves |-> <<Linked("PENDING"), Linked("PENDING")>>]]
    /\ inView = FALSE
    /\ \E filter \in reading.filters :
           session = Mounted(filter, PageAt(filter, Start), Matching(filter))
    /\ request = NoRequest
    /\ moving = Staying
    /\ tally = [writes |-> 0, moves |-> 0, mishaps |-> 0]

Open == reading.kind /= "none"
More(s) == s.cursor /= End

-----------------------------------------------------------------------------
(* The table.                                                              *)

Now == Max({table[w].at : w \in Works})

\* Every write sets updatedAt; it saves a half, loses one, adds the work or
\* takes it away.
Write(w) ==
    /\ Open
    /\ tally.writes < reading.writes
    /\ \/ \E halves \in reading.becomes :
             table' = [table EXCEPT ![w] = [at |-> Now + 1, halves |-> halves]]
       \/ table[w].at > 0 /\ table' = [table EXCEPT ![w].at = 0]
    /\ session' = [session EXCEPT !.steady = @ \ {w}]
    /\ moving' = [moving EXCEPT !.steady = @ \ {w}]
    /\ tally' = [tally EXCEPT !.writes = @ + 1]
    /\ UNCHANGED <<reading, inView, request>>

-----------------------------------------------------------------------------
(* Asking for more.                                                        *)

AskPage(s) == /\ session' = [s EXCEPT !.loading = TRUE, !.error = FALSE]
          /\ request' = [NoRequest EXCEPT !.state = "sent", !.cursor = s.cursor]

Waits(s) == {c \in {"cool", "recent"} : IF c = "cool" THEN s.cool = "running" ELSE s.recent}

MayAsk(s) == More(s) /\ ~ s.loading

\* loadMore of the archive waits until the pause and the half second are over ...
LoadMoreOfArchive(s) ==
    IF MayAsk(s) /\ Waits(s) = {} THEN AskPage(s)
    ELSE /\ session' = IF MayAsk(s) THEN [s EXCEPT !.timer = Waits(s)] ELSE s
         /\ UNCHANGED request

\* ... that of an artist's page forgets that it was asked.
LoadMoreOfProfile(s) ==
    IF MayAsk(s) /\ ~ s.recent THEN AskPage(s) ELSE session' = s /\ UNCHANGED request

LoadMore(s) == IF reading.kind = "archive" THEN LoadMoreOfArchive(s) ELSE LoadMoreOfProfile(s)

Quiet == UNCHANGED <<reading, table, moving, tally>>

\* The autoload effect of the archive.
Autoload ==
    /\ reading.kind = "archive"
    /\ session.due
    /\ IF inView /\ session.cool /= "running"
       THEN LoadMoreOfArchive([session EXCEPT !.due = FALSE])
       ELSE session' = [session EXCEPT !.due = FALSE] /\ UNCHANGED request
    /\ Quiet
    /\ UNCHANGED inView

\* The observer of an artist's page looks when it is set up, with every cursor,
\* and when the end of the list comes into view.
Observe ==
    /\ reading.kind = "profile"
    /\ session.due
    /\ IF inView THEN LoadMoreOfProfile([session EXCEPT !.due = FALSE])
       ELSE session' = [session EXCEPT !.due = FALSE] /\ UNCHANGED request
    /\ Quiet
    /\ UNCHANGED inView

Scroll ==
    /\ Open
    /\ inView' = ~ inView
    /\ session' = [session EXCEPT !.due = TRUE]
    /\ Quiet
    /\ UNCHANGED request

\* "Load more", "Retry loading more", "Try again".
ClickMore ==
    /\ Open
    /\ ~ session.loading
    /\ More(session)
    /\ LoadMore(session)
    /\ Quiet
    /\ UNCHANGED inView

\* retryNow, offered by the archive during a pause.
RetryNow ==
    /\ reading.kind = "archive"
    /\ session.cool = "running"
    /\ LoadMore([session EXCEPT !.cool = "none", !.timer = {}, !.recent = FALSE, !.due = TRUE])
    /\ Quiet
    /\ UNCHANGED inView

\* loadAll, offered by an artist's page.
ViewAll ==
    /\ reading.kind = "profile"
    /\ ~ session.loading
    /\ More(session)
    /\ AskPage([session EXCEPT !.all = TRUE])
    /\ Quiet
    /\ UNCHANGED inView

IntervalEnds ==
    /\ session.recent
    /\ session' = [session EXCEPT !.recent = FALSE]
    /\ Quiet
    /\ UNCHANGED <<inView, request>>

PauseEnds ==
    /\ session.cool = "running"
    /\ session' = [session EXCEPT !.cool = "over"]
    /\ Quiet
    /\ UNCHANGED <<inView, request>>

\* The timer of scheduleResume, which clears a pause that is over.
TimerFires ==
    /\ session.timer /= {}
    /\ session.timer \cap Waits(session) = {}
    /\ LET s == [session EXCEPT !.timer = {}, !.due = @ \/ session.cool = "over",
                               !.cool = IF @ = "over" THEN "none" ELSE @]
       IN  IF inView THEN LoadMoreOfArchive(s) ELSE session' = s /\ UNCHANGED request
    /\ Quiet
    /\ UNCHANGED inView

-----------------------------------------------------------------------------
(* The answers.                                                            *)

ReadPage ==
    /\ request.state = "sent"
    /\ request' = [request EXCEPT !.state = "read",
                                  !.page = PageAt(session.filter, request.cursor)]
    /\ UNCHANGED <<inView, session>>
    /\ Quiet

Merged(s) == [s EXCEPT !.shown = @ \cup request.page.works,
                       !.cursor = request.page.next, !.recent = TRUE, !.due = TRUE]
Done(s) == [s EXCEPT !.loading = FALSE, !.all = FALSE]

\* The rest of loadMore in the archive: a page ends every pause.
ArchivePageArrives ==
    /\ reading.kind = "archive"
    /\ request.state = "read"
    /\ session' = [Done(Merged(session)) EXCEPT !.cool = "none", !.timer = {}]
    /\ request' = NoRequest
    /\ Quiet
    /\ UNCHANGED inView

\* The rest of loadMore on an artist's page, and of a round of loadAll.
ProfilePageArrives ==
    /\ reading.kind = "profile"
    /\ request.state = "read"
    /\ LET s == Merged(session)
       IN  IF s.all /\ More(s) /\ s.cursor /= request.cursor
           THEN AskPage(s)
           ELSE session' = Done(s) /\ request' = NoRequest
    /\ Quiet
    /\ UNCHANGED inView

Mishap(S) ==
    /\ request.state /= "none"
    /\ tally.mishaps < reading.mishaps
    /\ session' \in S
    /\ request' = NoRequest
    /\ tally' = [tally EXCEPT !.mishaps = @ + 1]
    /\ UNCHANGED <<reading, table, inView, moving>>

\* In the archive 429 and 503 begin a pause; any other answer is an error, as is
\* no answer, which begins no half second.  Whatever it is, the autoload effect
\* looks again, for it depends on isLoadingMore.
ArchiveRequestFails ==
    /\ reading.kind = "archive"
    /\ LET s == [Done(session) EXCEPT !.due = TRUE]
       IN  Mishap({[s EXCEPT !.error = TRUE],
                   [s EXCEPT !.error = TRUE, !.recent = TRUE],
                   [s EXCEPT !.recent = TRUE, !.cool = "running", !.timer = {"cool"}]})

ProfileRequestFails ==
    reading.kind = "profile" /\ Mishap({[Done(session) EXCEPT !.error = TRUE]})

-----------------------------------------------------------------------------
(* Other pages.                                                            *)

\* A filter, a tab, or the refresh of an artist's page by a live event: the
\* server renders a first page.
Navigate(filter) ==
    /\ Open
    /\ tally.moves < reading.moves
    /\ filter = session.filter => reading.kind = "profile"
    /\ moving' = [state |-> "rendered", filter |-> filter,
                  page |-> PageAt(filter, Start), steady |-> Matching(filter)]
    /\ tally' = [tally EXCEPT !.moves = @ + 1]
    /\ UNCHANGED <<reading, table, inView, session, request>>

\* A session with another key is mounted anew, and answers to the old one are
\* dropped; with the same key it keeps what it has.
Commit ==
    /\ moving.state = "rendered"
    /\ LET new == Mounted(moving.filter, moving.page, moving.steady)
       IN  IF new.key = session.key
           THEN UNCHANGED <<session, request>>
           ELSE session' = new /\ request' = NoRequest
    /\ moving' = Staying
    /\ UNCHANGED <<reading, table, inView, tally>>

BrowsingNext ==
    \/ \E w \in Works : Write(w)
    \/ Autoload \/ Observe \/ Scroll \/ ClickMore \/ RetryNow \/ ViewAll
    \/ IntervalEnds \/ PauseEnds \/ TimerFires
    \/ ReadPage \/ ArchivePageArrives \/ ProfilePageArrives
    \/ ArchiveRequestFails \/ ProfileRequestFails
    \/ \E filter \in reading.filters : Navigate(filter)
    \/ Commit

BrowsingSpec == BrowsingInit /\ [][BrowsingNext]_browsingVars

-----------------------------------------------------------------------------
(* Properties.                                                             *)

\* A work whose card says "pending" although none of its linked halves is: what
\* keeps it from being saved is a linked half that is marked SKIPPED.
SkippedWhileLinked(halves) ==
    /\ Linked("SKIPPED") \in {halves[1], halves[2]}
    /\ \A i \in 1..2 : halves[i].status \notin {"PENDING", "FAILED"}

\* The database's filters and the status on a card are two programs.  A filter
\* never finds a work whose card says something else; and a work that is found
\* under no status at all is exactly one with a linked half marked SKIPPED, of
\* which its card says that it is pending.
FiltersAgree ==
    reading.kind = "archive" =>
        \A w \in Works :
            LET filters == {"preserved", "partial", "pending", "failed", "missing"}
                found == {f \in filters : w \in Matching(f)}
            IN  table[w].at > 0 =>
                    /\ found \subseteq {archiveItemStatus(table[w].halves)}
                    /\ found = {} <=> SkippedWhileLinked(table[w].halves)

\* However the works move while a reader scrolls, and whatever fails: the list
\* has every work before the cursor that was there when its first page was read
\* and has not been written since.
PagesMissNothing ==
    \A w \in session.steady : ~ buildCursorWhere(session.cursor, w) => w \in session.shown
=============================================================================
