--------------------------- MODULE TransactionLog ---------------------------
(***************************************************************************)
(* The audit log of synchronisations: recordTx of internal/syncer/push.go, *)
(* whose callers run concurrently, Record and Query of                     *)
(* internal/transaction/store.go, and the command agy-sync transactions,   *)
(* with which a user pages through the log while it grows.                 *)
(*                                                                         *)
(* A time is a number of quarter seconds, written with two binary digits   *)
(* after the point; like Go's RFC3339Nano, the text drops trailing zeros,  *)
(* and the point when nothing follows it.                                  *)
(***************************************************************************)
EXTENDS Integers, Sequences, FiniteSets

CONSTANTS
  Recorder,    \* the goroutines that record
  Events,      \* what they record: directions and entity types
  Listings,    \* the flags users give, see Flags
  PageLimit,   \* --limit; 0 stands for none
  DefaultLimit,\* the limit of a query that is given none
  ClockBound,  \* bound: the clock's last quarter second
  RowBound     \* bound: rows of the log

Direction == {"in", "out"}
EntityType == {"conv", "artifact", "brain"}
Flags == [in : BOOLEAN, out : BOOLEAN, direction : Direction \cup {""},
          types : SUBSET EntityType, type : EntityType \cup {""}]
Filter == [dir : Direction \cup {""}, type : EntityType \cup {""}]
LogRow == [time : 0 .. ClockBound, dir : Direction, type : EntityType]

ASSUME TransactionAssumption ==
  /\ Events \subseteq [dir : Direction, type : EntityType]
  /\ Listings \subseteq Flags
  /\ PageLimit \in Nat
  /\ DefaultLimit \in Nat \ {0}
  /\ ClockBound \in Nat
  /\ RowBound \in Nat

Limit == IF PageLimit = 0 THEN DefaultLimit ELSE PageLimit

VARIABLES
  clock,
  stamped,  \* stamped[w]: the rows w has stamped and not inserted, at most 1
  rows,     \* the table; a row's id is its position
  flags,    \* the flags of the listing under way, {} or one
  offset,   \* the --offset of its next page
  shown,    \* the ids on the last page
  owed      \* the ids of the rows there were when it began, not shown yet

txVars == <<clock, stamped, rows, flags, offset, shown, owed>>
listing == <<flags, offset, shown, owed>>

-----------------------------------------------------------------------------
(* The text of a time, as the bytes SQLite compares: '.' sorts before the  *)
(* digits, and they before 'Z'.                                            *)
Point == -1
Zulu == 2
Text(t) ==
  LET half == (t % 4) \div 2
      quarter == t % 2
      fraction == IF t % 4 = 0 THEN <<>>
                  ELSE IF quarter = 0 THEN <<Point, half>>
                  ELSE <<Point, half, quarter>>
  IN  <<t \div 4>> \o fraction \o <<Zulu>>

TextLess(a, b) ==
  \E k \in DOMAIN a \cap DOMAIN b :
    /\ \A j \in 1 .. k - 1 : a[j] = b[j]
    /\ a[k] < b[k]

(* ORDER BY timestamp DESC, id DESC; beside it, as elsewhere below, a slip *)
(* that a property is there to catch.                                      *)
LaterId(i, j) == i > j
Before(i, j) ==
  LET a == Text(rows[i].time)
      b == Text(rows[j].time)
  IN  TextLess(b, a) \/ (a = b /\ i > j)

(* Query: the ids of the rows of a page.                                   *)
AnyType(i, f) == f.dir = "" \/ rows[i].dir = f.dir
Matches(i, f) ==
  /\ f.dir = "" \/ rows[i].dir = f.dir
  /\ f.type = "" \/ rows[i].type = f.type
Matching(f) == {i \in DOMAIN rows : Matches(i, f)}
Rank(i, f) == Cardinality({j \in Matching(f) : Before(j, i)})
Skipped(from) == IF from > 0 THEN from + 1 ELSE 0
Offset(from) == from
Query(f, from) ==
  {i \in Matching(f) : Offset(from) <= Rank(i, f)
                         /\ Rank(i, f) < Offset(from) + Limit}

(* The command's flags as a filter.  --direction wins over --in or --out,  *)
(* and is refused only with both; two entity types are refused.            *)
Refused(g) ==
  \/ g.in /\ g.out
  \/ Cardinality(g.types) + (IF g.type = "" THEN 0 ELSE 1) > 1
ToFilter(g) ==
  [dir |-> IF g.direction # "" THEN g.direction
           ELSE IF g.out THEN "out" ELSE IF g.in THEN "in" ELSE "",
   type |-> IF g.type # "" THEN g.type
            ELSE IF g.types = {} THEN "" ELSE CHOOSE t \in g.types : TRUE]

TxInit ==
  /\ clock = 0
  /\ stamped = [w \in Recorder |-> {}]
  /\ rows = <<>>
  /\ flags = {}
  /\ offset = 0
  /\ shown = {}
  /\ owed = {}

-----------------------------------------------------------------------------
(* Recording.                                                              *)

Tick ==
  /\ clock < ClockBound
  /\ clock' = clock + 1
  /\ UNCHANGED <<stamped, rows, listing>>

(* recordTx reads the clock before Record takes its lock.                  *)
Stamp(w) ==
  /\ stamped[w] = {}
  /\ Len(rows) < RowBound
  /\ \E e \in Events :
       stamped' = [stamped EXCEPT ![w] =
                     {[time |-> clock, dir |-> e.dir, type |-> e.type]}]
  /\ UNCHANGED <<clock, rows, listing>>

(* The insert; its error is dropped.                                       *)
Record(w) ==
  /\ \E r \in stamped[w] :
       \/ Len(rows) < RowBound /\ rows' = Append(rows, r)
       \/ UNCHANGED rows
  /\ stamped' = [stamped EXCEPT ![w] = {}]
  /\ UNCHANGED <<clock, listing>>

-----------------------------------------------------------------------------
(* Listing, page after page: one command each.                             *)

BeginListing ==
  /\ flags = {}
  /\ \E g \in Listings :
       /\ ~Refused(g)
       /\ flags' = {g}
       /\ owed' = Matching(ToFilter(g))
  /\ offset' = 0
  /\ shown' = {}
  /\ UNCHANGED <<clock, stamped, rows>>

(* A page that is not full is the last.                                    *)
ListPage ==
  \E g \in flags :
    LET list == Query(ToFilter(g), offset) IN
    /\ shown' = list
    /\ owed' = owed \ list
    /\ offset' = offset + Limit
    /\ flags' = IF Cardinality(list) < Limit THEN {} ELSE flags
    /\ UNCHANGED <<clock, stamped, rows>>

TxNext ==
  \/ Tick \/ BeginListing \/ ListPage
  \/ \E w \in Recorder : Stamp(w) \/ Record(w)

TxSpec == TxInit /\ [][TxNext]_txVars

-----------------------------------------------------------------------------
(* Properties.                                                             *)

(* Whoever pages through the log until a page is not full has seen every   *)
(* row that was there when he began, although rows are added meanwhile,    *)
(* anywhere in the order, and pages are positions in it.                   *)
PagesMissNothing == flags = {} => owed = {}

(* The first page is the latest: no event it leaves out is of a later      *)
(* second than one it shows, in whatever order goroutines inserted what    *)
(* they had stamped.  Within a second that is not so, whatever the comment *)
(* on Query says: the text of a time that ends in zeros sorts after that   *)
(* of a later one.                                                         *)
FirstPageLatest ==
  [][\A g \in flags :
       offset = 0 /\ offset' > 0 =>
         \A i \in shown', j \in Matching(ToFilter(g)) \ shown' :
           rows[j].time \div 4 <= rows[i].time \div 4]_txVars

(* No page, the last one included, lists what an entity type flag          *)
(* excludes, whichever of the two forms gave it.                           *)
TypesAsked(g) == g.types \cup ({g.type} \ {""})
TypesRespected ==
  [][\A g \in flags :
       offset' > offset /\ TypesAsked(g) # {} =>
         \A i \in shown' : rows[i].type \in TypesAsked(g)]_txVars

=============================================================================
