--------------------------- MODULE ChannelListing ---------------------------
(***************************************************************************)
(* ListChannelsTyped (internal/upstream/newapi.go): New-API's channel      *)
(* table is read a page at a time, until as many channels have been read   *)
(* as the last page says there are, while operators add, delete and        *)
(* reorder channels between two pages.  Each page is one GET through       *)
(* doWithRetry, which repeats it once after a 5xx.                         *)
(*                                                                         *)
(* New-API lists by priority: a new channel comes in anywhere, a changed   *)
(* priority moves one.  A page and the total that comes with it are taken  *)
(* to be of one moment; pages are counted from 0.                          *)
(***************************************************************************)
EXTENDS Naturals, Sequences, SequencesExt, FiniteSets

CONSTANTS
  PageSize,   \* channels in a page (100 in the code)
  MaxInit,    \* bound: channels there at first
  MaxId,      \* bound: channels there ever are
  MaxMoves,   \* bound: changes of a priority during one listing
  MayFail     \* may a GET fail?

ASSUME ListingAssumption ==
  /\ PageSize \in Nat \ {0}
  /\ MaxInit \in Nat /\ MaxId \in Nat /\ MaxInit <= MaxId
  /\ MaxMoves \in Nat /\ MayFail \in BOOLEAN

VARIABLES
  table,   \* the channels in New-API, in the order it lists them
  ids,     \* how many ids it has given
  at,      \* what the listing is doing
  page,    \* the page it asks for
  all,     \* the channels read so far
  \* History, since the listing began:
  kept,    \* channels that have been there all the time
  added,   \* insertions: new channels and moves
  removed, \* removals: deletions and moves
  moves

listing == <<at, page, all>>
history == <<kept, added, removed, moves>>
listingVars == <<table, ids, listing, history>>

Asking == {"get", "get-again"}

ListingInit ==
  /\ ids \in 0 .. MaxInit
  /\ table = [i \in 1 .. ids |-> i]
  /\ at = "idle" /\ page = 0 /\ all = << >>
  /\ kept = {} /\ added = 0 /\ removed = 0 /\ moves = 0

-----------------------------------------------------------------------------
\* Operators whose comment begins with "Wrong:" are mistakes made on purpose, to
\* show that the properties at the end notice them; nothing else uses them.

\* A caller (fetchLiveState, verifyCreate, verifyDelete) wants the list.
Begin ==
  /\ at \notin Asking
  /\ at' = "get" /\ page' = 0 /\ all' = << >>
  /\ kept' = ToSet(table) /\ added' = 0 /\ removed' = 0 /\ moves' = 0
  /\ UNCHANGED <<table, ids>>

Least(m, n) == IF m < n THEN m ELSE n

\* What New-API answers for the page.
Items == SubSeq(table, page * PageSize + 1, Least((page + 1) * PageSize, Len(table)))

\* Wrong: goes on until there is one too many.
OneTooMany(read) == Len(read) > Len(table)

\* The loop ends when as much has been read as there is.
Complete(read) == Len(read) >= Len(table)

GetPage ==
  /\ at \in Asking
  /\ all' = all \o Items
  /\ IF Complete(all') THEN at' = "listed" /\ UNCHANGED page
                       ELSE at' = "get" /\ page' = page + 1
  /\ UNCHANGED <<table, ids, history>>

\* Wrong: the second answer is taken whatever it is, here an empty page.
RetryBlindly == at' = IF at = "get" THEN "get-again" ELSE "listed"

\* Wrong: a 5xx is repeated as long as it comes.
RetryForEver == at' = IF at = "get" THEN "get-again" ELSE "get"

\* A failed listing returns no channels.
Forget == all' = IF at' = "failed" THEN << >> ELSE all

\* doWithRetry: a 5xx is tried again once, after a second ...
Retry == at' = IF at = "get" THEN "get-again" ELSE "failed"

GetFails5xx ==
  /\ MayFail /\ at \in Asking
  /\ Retry
  /\ Forget
  /\ UNCHANGED <<table, ids, page, history>>

\* ... and a transport error, a refusal or an unreadable body not at all: the
\* channels read so far are thrown away.
GetFails ==
  /\ MayFail /\ at \in Asking
  /\ at' = "failed"
  /\ Forget
  /\ UNCHANGED <<table, ids, page, history>>

-----------------------------------------------------------------------------
\* The table changes under the listing. What happens to it between two listings
\* makes no difference: ListingInit has every table a listing can begin with.
Add(i) ==
  /\ at \in Asking /\ ids < MaxId /\ i \in 1 .. Len(table) + 1
  /\ ids' = ids + 1
  /\ table' = InsertAt(table, i, ids + 1)
  /\ added' = added + 1
  /\ UNCHANGED <<listing, kept, removed, moves>>

Delete(i) ==
  /\ at \in Asking /\ i \in DOMAIN table
  /\ table' = RemoveAt(table, i)
  /\ kept' = kept \ {table[i]}
  /\ removed' = removed + 1
  /\ UNCHANGED <<ids, listing, added, moves>>

Move(i, j) ==
  /\ at \in Asking /\ moves < MaxMoves
  /\ i \in DOMAIN table /\ j \in DOMAIN table \ {i}
  /\ moves' = moves + 1
  /\ table' = InsertAt(RemoveAt(table, i), j, table[i])
  /\ added' = added + 1 /\ removed' = removed + 1
  /\ UNCHANGED <<ids, listing, kept>>

List == GetPage \/ GetFails5xx \/ GetFails

ListingNext ==
  \/ Begin
  \/ List
  \/ \E i \in 1 .. Len(table) + 1 : \/ Add(i)
                                    \/ Delete(i)
                                    \/ \E j \in DOMAIN table : Move(i, j)

\* Every GET ends within the client's timeout; nothing is assumed of the others.
ListingSpec == ListingInit /\ [][ListingNext]_listingVars /\ WF_listingVars(List)

-----------------------------------------------------------------------------
\* Type invariant, with the loop's own: while it goes on, every page so far has
\* been full, which is why len(all) can be compared with a total.
ListingTypeOK ==
  /\ IsInjective(table) /\ ToSet(table) \subseteq 1 .. ids
  /\ ids \in 0 .. MaxId
  /\ at \in Asking \union {"idle", "listed", "failed"}
  /\ page \in Nat
  /\ at \in Asking => Len(all) = page * PageSize
  /\ all \in Seq(1 .. ids)
  /\ kept \subseteq ToSet(table)
  /\ added \in Nat /\ removed \in Nat /\ moves \in 0 .. MaxMoves

\* A listing that succeeds (ListChannelsTyped) is off by no more than what was
\* done to the table while it went on: it overlooks at most one channel for each
\* deletion or move - none, if channels were only added - and reads at most one
\* twice for each insertion or move - none, if they were only deleted.
ListingIsOffByTheChanges ==
  at = "listed" =>
    /\ Cardinality(kept \ ToSet(all)) <= removed
    /\ Len(all) - Cardinality(ToSet(all)) <= added

\* The loop ends, although the total it is measured against keeps changing: it is
\* never left with fewer channels than the total and only empty pages to come.
ListingEnds == at \in Asking ~> at \in {"listed", "failed"}
=============================================================================
