------------------------------ MODULE RouteFeed ------------------------------
(***************************************************************************)
(* The saved routes of one account: SavedRoutesService and                 *)
(* PrismaRouteRepository over the tables routes and route_tombstones,      *)
(* GET sync/pull, and the phone following that feed (SyncService._pull,    *)
(* SavedRouteRepositoryImpl.applyRemote).                                  *)
(*                                                                         *)
(* A transaction runs its statements one at a time at READ COMMITTED: a    *)
(* statement sees the rows committed when it begins and waits for a row    *)
(* that another transaction has changed.  now() is the time a transaction  *)
(* began, so changes are committed out of the order of their timestamps.   *)
(***************************************************************************)
EXTENDS Integers, Sequences, FiniteSets

CONSTANTS
  Writer,       \* other devices and the REST API
  MaxRoute,     \* bound: routes, numbered in the order of their ids
  MaxWrite,     \* bound: saves
  MaxClock,     \* bound: the clock
  Longest,      \* the longest a transaction stays open
  Overlap,      \* SyncService._pullOverlap
  PageLimit,    \* changes of a page
  MaxPages      \* SyncService._maxPullPages

ThisPhone == "phone"

(* The timeout of a transaction of Prisma is the overlap of the pulls, 5 s. *)
ASSUME RouteFeedAssumption ==
  /\ {MaxRoute, MaxWrite, MaxClock, Longest, Overlap} \subseteq Nat
  /\ {PageLimit, MaxPages} \subseteq Nat \ {0}
  /\ Longest <= Overlap
  /\ ThisPhone \notin Writer

Route == 1..MaxRoute
Party == Writer \cup {ThisPhone}
NoId == 0
Never == -1       \* no timestamp

VARIABLES
  clock,
  routes,      \* routes, as committed
  tombstone,   \* route_tombstones: deleted_at, as committed
  tx,          \* transactions, by who asked
  writes,      \* saves so far
  local,       \* offlineRoutes of the phone
  unsent,      \* deletions queued on the phone
  cursor,      \* its pull cursor
  pull,        \* SyncService._pull
  calm,        \* history: nothing changed since the pull under way began
  followed     \* history: nor since the last pull that came to the end

serverVars == <<routes, tombstone, tx, writes>>
phoneVars == <<local, unsent, cursor, pull>>
feedVars == <<clock, serverVars, phoneVars, calm, followed>>

(* A row is the save that wrote it and its updated_at. *)
NoRow == [at |-> Never, v |-> NoId]
Statement == {"insert", "clear", "delete", "bury"}
NoTx == [todo |-> <<>>, route |-> NoId, at |-> Never, v |-> NoId, holds |-> FALSE, clears |-> FALSE]
NoPull == [on |-> FALSE, from |-> [since |-> Never, after |-> NoId], started |-> Never, pages |-> 0,
           answer |-> <<>>]

RouteFeedInit ==
  /\ clock = 0 /\ writes = 0
  /\ routes = [r \in Route |-> NoRow]
  /\ tombstone = [r \in Route |-> Never]
  /\ tx = [s \in Party |-> NoTx]
  /\ local = [r \in Route |-> NoId]
  /\ unsent = {}
  /\ cursor = [since |-> Never, after |-> NoId]
  /\ pull = NoPull
  /\ calm = FALSE /\ followed = FALSE

-----------------------------------------------------------------------------
(* PrismaRouteRepository.                                                  *)

(* The statements of upsert and of delete. *)
ClearFirstMutant == <<"clear", "insert", "commit">>
SaveRoute == <<"insert", "clear", "commit">>
DeleteRoute == <<"delete", "bury", "commit">>

IsOpen(s) == tx[s].todo # <<>>
LockedRoute(r, s) == \E o \in Party \ {s} : tx[o].holds /\ tx[o].route = r
Advance(s, holds, clears) ==
  tx' = [tx EXCEPT ![s].todo = Tail(@), ![s].holds = holds, ![s].clears = clears]

BeginTx(s, r, todo) ==
  /\ tx[s] = NoTx
  /\ tx' = [tx EXCEPT ![s] = [todo |-> todo, route |-> r, at |-> clock,
                                v |-> IF todo = SaveRoute THEN writes + 1 ELSE NoId,
                                holds |-> FALSE, clears |-> FALSE]]
  /\ writes' = IF todo = SaveRoute THEN writes + 1 ELSE writes
  /\ UNCHANGED <<clock, routes, tombstone, phoneVars, calm, followed>>

Statements(s) ==
  LET t == tx[s] IN
  /\ IsOpen(s)
  /\ \/ /\ Head(t.todo) = "insert"
        /\ ~LockedRoute(t.route, s)
        /\ Advance(s, TRUE, t.clears)
     \/ /\ Head(t.todo) = "clear"
        /\ Advance(s, t.holds, tombstone[t.route] # Never)
     \/ /\ Head(t.todo) = "delete"
        /\ routes[t.route] # NoRow
        /\ ~LockedRoute(t.route, s)
        /\ Advance(s, TRUE, FALSE)
     \/ /\ Head(t.todo) = "bury"
        /\ Advance(s, t.holds, FALSE)
  /\ UNCHANGED <<clock, routes, tombstone, writes, phoneVars, calm, followed>>

(* Nothing to delete: the transaction has changed nothing. *)
NotFound(s) ==
  /\ IsOpen(s) /\ Head(tx[s].todo) = "delete" /\ routes[tx[s].route] = NoRow
  /\ tx' = [tx EXCEPT ![s] = NoTx]
  /\ unsent' = IF s = ThisPhone THEN unsent \ {tx[s].route} ELSE unsent
  /\ UNCHANGED <<clock, routes, tombstone, writes, local, cursor, pull, calm, followed>>

CommitTx(s) ==
  LET t == tx[s] IN
  /\ IsOpen(s) /\ Head(t.todo) = "commit"
  /\ routes' = [routes EXCEPT ![t.route] = IF t.v = NoId THEN NoRow ELSE [at |-> t.at, v |-> t.v]]
  /\ tombstone' = [tombstone EXCEPT ![t.route] =
                     IF t.v = NoId THEN t.at ELSE IF t.clears THEN Never ELSE @]
  /\ tx' = [tx EXCEPT ![s] = NoTx]
  /\ unsent' = IF s = ThisPhone THEN unsent \ {t.route} ELSE unsent
  /\ calm' = FALSE /\ followed' = FALSE
  /\ UNCHANGED <<clock, writes, local, cursor, pull>>

(* A transaction that lasts longer is rolled back by its timeout. *)
Tick ==
  /\ clock < MaxClock
  /\ \A s \in Party : IsOpen(s) => clock + 1 <= tx[s].at + Longest
  /\ clock' = clock + 1
  /\ UNCHANGED <<serverVars, phoneVars, calm, followed>>

(* changes: routes and tombstones in one order, one more than a page. *)
After(at, r, from) == at > from.since \/ (at = from.since /\ r > from.after)
Changes(from) ==
  {c \in {[at |-> routes[r].at, id |-> r, v |-> routes[r].v] : r \in {q \in Route : routes[q] # NoRow}}
         \cup {[at |-> tombstone[r], id |-> r, v |-> NoId] : r \in {q \in Route : tombstone[q] # Never}} :
     After(c.at, c.id, from)}
InFeedOrder(c, d) == c.at < d.at \/ (c.at = d.at /\ c.id < d.id)
changes(from) ==
  LET all == Changes(from)
      page == {c \in all : Cardinality({d \in all : InFeedOrder(d, c)}) < PageLimit} IN
  [page |-> page, hasMore |-> page # all]
LastOf(page) == CHOOSE c \in page : \A d \in page \ {c} : InFeedOrder(d, c)

-----------------------------------------------------------------------------
(* The phone.                                                              *)

DeleteLocally(r) ==
  /\ local[r] # NoId
  /\ local' = [local EXCEPT ![r] = NoId]
  /\ unsent' = unsent \cup {r}
  /\ calm' = FALSE /\ followed' = FALSE
  /\ UNCHANGED <<clock, serverVars, cursor, pull>>

(* A round pushes before it pulls. *)
Push(r) == ~pull.on /\ r \in unsent /\ BeginTx(ThisPhone, r, DeleteRoute)

StartPull ==
  /\ ~pull.on /\ ~IsOpen(ThisPhone)
  /\ pull' = [NoPull EXCEPT !.on = TRUE, !.from = cursor]
  /\ calm' = TRUE
  /\ UNCHANGED <<clock, serverVars, local, unsent, cursor, followed>>

(* GET sync/pull: the time is taken before the query. *)
Answer ==
  /\ pull.on /\ pull.answer = <<>>
  /\ pull' = [pull EXCEPT !.answer = <<changes(pull.from)>>,
                          !.started = IF @ = Never THEN clock ELSE @,
                          !.pages = @ + 1]
  /\ UNCHANGED <<clock, serverVars, local, unsent, cursor, calm, followed>>

(* Mutant: the deletions that wait to be sent are not asked for. *)
ReturningMutant(page) ==
  LET of(r) == {c \in page : c.id = r} IN
  [r \in Route |-> IF of(r) = {} THEN local[r] ELSE (CHOOSE c \in of(r) : TRUE).v]

(* The routes first, but those whose deletion waits to be sent; then the deletions. *)
Applied(page) ==
  LET of(r) == {c \in page : c.id = r} IN
  [r \in Route |->
     IF \E c \in of(r) : c.v = NoId THEN NoId
     ELSE IF of(r) = {} \/ r \in unsent THEN local[r]
     ELSE (CHOOSE c \in of(r) : TRUE).v]

(* "Up to date.  The next pull starts a little before this one did." *)
NoOverlapMutant(started) == [since |-> started, after |-> NoId]
NextPull(started) == [since |-> started - Overlap, after |-> NoId]

(* applyRemote, then the cursor of the next page or of the next pull. *)
Apply ==
  LET got == pull.answer[1]
      next == [since |-> LastOf(got.page).at, after |-> LastOf(got.page).id] IN
  /\ pull.answer # <<>>
  /\ local' = Applied(got.page)
  /\ \/ /\ ~got.hasMore
        /\ cursor' = NextPull(pull.started)
        /\ pull' = NoPull
        /\ followed' = calm
     \/ /\ got.hasMore /\ pull.pages < MaxPages
        /\ pull' = [pull EXCEPT !.from = next, !.answer = <<>>]
        /\ UNCHANGED <<cursor, followed>>
     \/ /\ got.hasMore /\ pull.pages = MaxPages
        /\ cursor' = next
        /\ pull' = NoPull
        /\ UNCHANGED followed
  /\ UNCHANGED <<clock, serverVars, unsent, calm>>

(* The network fails: the cursor stays. *)
PullFails ==
  /\ pull.on
  /\ pull' = NoPull
  /\ UNCHANGED <<clock, serverVars, local, unsent, cursor, calm, followed>>

RouteFeedNext ==
  \/ \E s \in Writer, r \in Route :
       \/ writes < MaxWrite /\ BeginTx(s, r, SaveRoute)
       \/ BeginTx(s, r, DeleteRoute)
  \/ \E s \in Party : Statements(s) \/ NotFound(s) \/ CommitTx(s)
  \/ Tick
  \/ \E r \in Route : DeleteLocally(r) \/ Push(r)
  \/ StartPull \/ Answer \/ Apply \/ PullFails

RouteFeedSpec == RouteFeedInit /\ [][RouteFeedNext]_feedVars

-----------------------------------------------------------------------------
(* Properties. *)

(* "A route id is never in both tables" (prisma-route.repository.ts:155),  *)
(* whatever saves and deletions of it overlap.                             *)
NeverInBothTables == \A r \in Route : ~(routes[r] # NoRow /\ tombstone[r] # Never)

(* "A delete made on this device and not sent yet wins over the server     *)
(* copy" (saved_route_repository_impl.dart:121), also when it was made     *)
(* while a page that has the route was on its way, and in every later pull *)
(* until it is sent.                                                       *)
DeletionsStay == \A r \in unsent : local[r] = NoId

(* When nothing changed since a pull began and it came to its last page,   *)
(* the phone has the routes of the server: no change is skipped, though    *)
(* changes are committed after changes with later timestamps were read     *)
(* (sync_service.dart:84-86).  The routes whose deletion waits to be sent  *)
(* are the exception, and of those no page ever brings one back.           *)
FeedIsFollowed ==
  /\ DeletionsStay
  /\ followed => \A r \in Route \ unsent : local[r] = routes[r].v
=============================================================================
