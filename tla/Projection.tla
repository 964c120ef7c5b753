-------------------------------- MODULE Projection -------------------------------
(***************************************************************************)
(* What becomes of a callback URL and an event list on their way from the  *)
(* operator's inputs to Stripe and back to the planner: parsed and         *)
(* normalised (inputs.go), stored, listed by Stripe inside a page, turned  *)
(* by the host into a flat map from selector paths to values, read back    *)
(* from it (project.go), written into an observation and normalised once   *)
(* more (webhook.go observedWebhooks).                                     *)
(*                                                                         *)
(* A URL is a sequence of characters: "a" stands for its scheme, host and  *)
(* path, up to the trailing spaces and slashes that normalizeURL looks at. *)
(* An event name is its place in the order of strings, 0 for the empty     *)
(* one.  Of a selector path "prefix[digits]suffix" the three parts are     *)
(* kept, "none" for no suffix; digits are those of Base (10 in the source).*)
(***************************************************************************)
EXTENDS Naturals, Sequences, FiniteSets, SequencesExt, FiniteSetsExt

CONSTANTS Chars,       \* the characters an operator may write, "a" aside
          MaxEvent,    \* event names are 0..MaxEvent
          MaxWritten,  \* bound on the characters and events written
          MaxPage,     \* bound on the elements of a page
          Base         \* of the indices in a selector path

ASSUME ProjectionAssumption ==
    /\ Chars \subseteq {"space", "slash"} /\ MaxEvent \in Nat /\ MaxWritten \in Nat
    /\ MaxPage \in Nat \ {0} /\ Base \in Nat \ {0, 1}

VARIABLES phase,     \* "write", "sent", "listed", "read"
          url,       \* the operator's callback_url
          events,    \* the operator's enabled_events
          desired,   \* what parseInputs made of them
          stored,    \* Stripe: what it holds
          fields,    \* the filtered response: a page, our endpoint last
          observed,  \* what the planner compares with desired
          cursor     \* the element the next page would start after

vars == <<phase, url, events, desired, stored, fields, observed, cursor>>
--------------------------------------------------------------------------------
(* inputs.go *)

TrimRight(s, cut) == SubSeq(s, 1, Max({0} \cup {i \in DOMAIN s : s[i] \notin cut}))
TrimLeft(s, cut) == SubSeq(s, Min({Len(s) + 1} \cup {i \in DOMAIN s : s[i] \notin cut}), Len(s))
TrimSpace(s) == TrimRight(TrimLeft(s, {"space"}), {"space"})

\* Mutant: slashes go first, then whitespace.
SlashesFirst(raw) == TrimSpace(TrimRight(raw, {"slash"}))

NormalizeURL(raw) == TrimRight(TrimSpace(raw), {"slash"})

\* An event as the operator writes it, perhaps with whitespace around it.
RawEvent == [name : 0..MaxEvent, pad : BOOLEAN]
Trimmed(list) == [i \in DOMAIN list |-> list[i].name]

\* Mutant: the order of the list is kept.
NormalizeUnsorted(names) ==
    SelectSeq(names, LAMBDA e : e # 0)

\* sort.Strings, sort.Ints, sort.Slice: what is in a set, once each, by ascending keys.
Ordered(S, key) ==
    CHOOSE s \in SetToSeqs(S) : \A i, j \in DOMAIN s : i < j => key[s[i]] <= key[s[j]]

Ascending(S) == Ordered(S, [n \in S |-> n])

\* normalizeEvents, of names already trimmed: sorted, each non-empty name once.
NormalizeEvents(names) == Ascending(ToSet(names) \ {0})

\* eventsEqual
EventsEqual(a, b) == Len(a) = Len(b) /\ \A i \in DOMAIN a : a[i] = b[i]

ParseInputs == [url |-> NormalizeURL(url), events |-> NormalizeEvents(Trimmed(events))]
--------------------------------------------------------------------------------
(* project.go *)

\* The digits of an index, most significant first, as the host writes them.
Digits[n \in Nat] == IF n < Base THEN <<n>> ELSE Append(Digits[n \div Base], n % Base)

Path(prefix, index, suffix) ==
    [prefix |-> prefix, digits |-> Digits[index], suffix |-> suffix]

\* The loop of listIndex over the digits.
Number(digits) ==
    LET index[i \in 0..Len(digits)] ==
            IF i = 0 THEN 0 ELSE index[i - 1] * Base + digits[i]
    IN  index[Len(digits)]

\* Mutant: only the first digit counts.
ListIndexFirstDigit(path) == Head(path.digits)

\* listIndex, of a path whose prefix and suffix match.
ListIndex(path) == Number(path.digits)

Matching(prefix, suffix) ==
    {path \in DOMAIN fields : path.prefix = prefix /\ path.suffix = suffix}

\* dataIndices: the elements of the page that have an id, in order.
DataIndices == Ascending({ListIndex(path) : path \in Matching("data", ".id")})

\* collectList: the elements of a list under a prefix, by their index.
CollectList(prefix) ==
    LET items == Matching(prefix, "none")
        paths == Ordered(items, [path \in items |-> ListIndex(path)])
    IN  [i \in DOMAIN paths |-> fields[paths[i]]]
--------------------------------------------------------------------------------
Init ==
    /\ phase = "write" /\ url = <<"a">> /\ events = <<>>
    /\ desired = <<>> /\ stored = <<>> /\ fields = <<>> /\ observed = <<>> /\ cursor = 0

\* The operator writes one more character or one more event.
Write ==
    /\ phase = "write" /\ Len(url) + Len(events) < MaxWritten
    /\ \/ /\ \E c \in Chars : url' \in {Append(url, c), <<c>> \o url}
          /\ events' = events
       \/ /\ \E e \in RawEvent : events' = Append(events, e)
          /\ url' = url
    /\ UNCHANGED <<phase, desired, stored, fields, observed, cursor>>

\* The inputs are parsed, and a create or update sends them; Stripe keeps the event
\* names as it likes and may add a slash to the URL, or drop it.
Send ==
    /\ phase = "write" /\ desired' = ParseInputs
    /\ \E order \in SetToSeqs(ToSet(desired'.events)) :
       \E sent \in {desired'.url, Append(desired'.url, "slash")} :
            stored' = [url |-> sent, events |-> order]
    /\ phase' = "sent"
    /\ UNCHANGED <<url, events, fields, observed, cursor>>

\* A page of n elements, our endpoint the last of them.  An element's id is its place.
Page(n) ==
    LET ids == [path \in {Path("data", i, ".id") : i \in 0..(n - 1)} |-> ListIndex(path)]
        ours == [path \in {Path("events", i - 1, "none") : i \in DOMAIN stored.events} |->
                    stored.events[ListIndex(path) + 1]]
    IN  [path \in DOMAIN ids \cup DOMAIN ours |->
            IF path \in DOMAIN ids THEN ids[path] ELSE ours[path]]

\* The host answers a list request.
List ==
    /\ phase = "sent"
    /\ \E n \in 1..MaxPage : fields' = Page(n)
    /\ phase' = "listed"
    /\ UNCHANGED <<url, events, desired, stored, observed, cursor>>

\* observeWebhooks reads the page, the observation is written and read.
Read ==
    /\ phase = "listed"
    /\ observed' = [url |-> NormalizeURL(stored.url),
                    events |-> NormalizeEvents(NormalizeEvents(CollectList("events")))]
    /\ cursor' = Last(DataIndices)
    /\ phase' = "read"
    /\ UNCHANGED <<url, events, desired, stored, fields>>

Next == Write \/ Send \/ List \/ Read

Spec == Init /\ [][Next]_vars
--------------------------------------------------------------------------------
Elements == {path \in DOMAIN fields : path.prefix = "data"}

\* What the planner compares is what the operator asked for, in whatever order
\* Stripe holds it: the events never read as drift (inputs.go normalizeEvents and
\* eventsEqual, project.go collectList).
EventsSurvive == phase = "read" => EventsEqual(desired.events, observed.events)

\* The same of the URL, when normalising it leaves no whitespace at its end: a slash
\* more or less is no drift (inputs.go normalizeURL).
URLSurvives ==
    phase = "read" /\ Last(desired.url) # "space" => observed.url = desired.url

\* The cursor is the last element of the page, beyond the ninth element too
\* (project.go dataIndices and listIndex).
CursorIsLast == phase = "read" => cursor = Cardinality(Elements) - 1
================================================================================
