-------------------------------- MODULE StripeList -------------------------------
(***************************************************************************)
(* The list of webhook endpoints as Stripe serves it to the provider, page *)
(* by page (external): ids grow with creation, the newest come first, a    *)
(* page holds at most PageSize endpoints older than the cursor, and a      *)
(* cursor whose endpoint is gone still stands for its place in the list.   *)
(***************************************************************************)
EXTENDS Naturals, Sequences, FiniteSets, SequencesExt

CONSTANT PageSize   \* limit=100 in the source

ASSUME PageSizeAssumption == PageSize \in Nat \ {0}

\* Cursor 0 is a request without starting_after.
Older(ids, cursor) == {i \in ids : cursor # 0 => i < cursor}

Page(ids, cursor) ==
    LET older == Older(ids, cursor)
    IN  {i \in older : Cardinality({j \in older : j > i}) < PageSize}

\* What the data array of the answer may be: the page, newest first.
Data(ids, cursor) ==
    {data \in [1..Cardinality(Page(ids, cursor)) -> Page(ids, cursor)] :
        /\ ToSet(data) = Page(ids, cursor)
        /\ \A j, k \in DOMAIN data : j < k => data[j] > data[k]}

\* Its has_more.
HasMore(ids, cursor) == Cardinality(Older(ids, cursor)) > PageSize
================================================================================
