---------------------------- MODULE IngestProofs ----------------------------
(***************************************************************************)
(* Proofs about Ingest for any filters, nested in any way, any projects    *)
(* and any order in which Go walks its maps.                               *)
(*                                                                         *)
(* In both loops the filters that were seen (S), together with those that  *)
(* are still to come, hold every filter they began with, and every filter  *)
(* of a conjunction that was seen.  When nothing is left to come, S is     *)
(* closed, and so it has all that is reached from the beginning.           *)
(*                                                                         *)
(* What projectKey finds in a header is proved by induction on the         *)
(* parameters: up to the first with the name of the key there is no key in *)
(* the text, from there on it is the value of that parameter.              *)
(***************************************************************************)
EXTENDS Ingest, SequenceLemmas

Filters == Nodes \cup {Null}

Covered(F, S, todo) ==
  /\ F \subseteq S \cup todo
  /\ \A n \in S : Kind[n] = "and" => Range(Subs[n]) \subseteq S \cup todo

-----------------------------------------------------------------------------
LEMMA SubsAreFilters ==
  ASSUME NEW n \in Nodes
  PROVE  Range(Subs[n]) \subseteq Filters
BY IngestAssumption DEF IngestAssumption, Range, Filters

LEMMA InsideHolds ==
  ASSUME NEW F \in SUBSET Filters
  PROVE  F \subseteq Inside(F)
BY DEF Inside, Filters

LEMMA InsideIsClosed ==
  ASSUME NEW F, NEW n \in Inside(F) \ {Null}, Kind[n] = "and"
  PROVE  Range(Subs[n]) \subseteq Inside(F)
<1>1. n \in Nodes
  BY DEF Inside
<1> QED
  BY <1>1, SubsAreFilters DEF Inside, Filters

LEMMA InsideIsLeast ==
  ASSUME NEW F, NEW S \in SUBSET Nodes, Covered(F, S, {})
  PROVE  Inside(F) \subseteq S
BY DEF Inside, Covered

LEMMA RangeOfConcatenation ==
  ASSUME NEW s \in Seq(Filters), NEW t \in Seq(Filters)
  PROVE  s \o t \in Seq(Filters) /\ Range(s \o t) = Range(s) \cup Range(t)
BY RangeConcatenation, ConcatProperties, ZenonT(60)

LEMMA TopIsNodes == Top(doc) \subseteq Filters
BY DEF Top, Filters

-----------------------------------------------------------------------------
(* Load: what is still to be decoded, and what has been.                   *)
Decoding ==
  /\ undecoded \subseteq Nodes \cap Inside(Top(doc))
  /\ \E S \in SUBSET Nodes : Covered(Top(doc), S, undecoded) /\ \A n \in S : ~Broken(n)
  /\ pc \notin {"decode", "failed"} => undecoded = {}

(* Load: the projects that the loop has not seen, and the others.          *)
Resolving ==
  /\ \A k \in Keys : doc.projects[k] = Absent => k \notin left /\ projects[k] = Absent
  /\ \A k \in left : projects[k] = doc.projects[k]
  /\ \A k \in Keys \ left : doc.projects[k] # Absent =>
       /\ \A f \in FiltersOf(doc.projects[k]) : ~Unresolved(f)
       /\ projects[k] = Configured(k, doc.projects[k])
  /\ pc \notin {"decode", "resolve", "failed"} => left = {}

(* ServeHTTP: the filters that are still to be asked, and those that were. *)
Asking ==
  /\ pc \notin {"filter", "batched", "aborted"} => event = Null
  /\ pc \in {"read", "filter", "batched", "aborted"} => key \in Keys /\ projects[key] # Absent
  /\ pc \in {"filter", "batched", "aborted"} =>
       /\ asked \in Seq(Filters)
       /\ Range(asked) \subseteq Required(key)
       /\ \E S \in SUBSET Nodes :
            /\ Covered({Means(f) : f \in FiltersOf(doc.projects[key])}, S, Range(asked))
            /\ \A n \in S : IsAnd(n)
  /\ pc = "batched" => asked = <<>>
  /\ pc = "aborted" => asked # <<>> /\ ~IsAnd(Head(asked))

TypeInv ==
  /\ doc \in Documents
  /\ projects = [k \in Keys |-> projects[k]]
  /\ left \subseteq Keys

Loadable == WellFormed(doc) /\ PlainReferences(doc)

IInv ==
  /\ TypeInv
  /\ Decoding
  /\ Resolving
  /\ Asking
  /\ pc = "failed" => ~Loadable

LEMMA InitIInv == Init => IInv
<1> SUFFICES ASSUME Init
             PROVE  IInv
  OBVIOUS
<1> USE DEF Init
<1>1. TypeInv
  BY DEF TypeInv, Documents
<1>2. Decoding
  <2>1. Top(doc) \subseteq Nodes \cap Inside(Top(doc))
    BY InsideHolds, TopIsNodes DEF Top
  <2>2. Covered(Top(doc), {}, undecoded)
    BY DEF Covered
  <2> QED
    BY <2>1, <2>2 DEF Decoding
<1>3. Resolving
  BY DEF Resolving
<1>4. Asking
  BY DEF Asking
<1> QED
  BY <1>1, <1>2, <1>3, <1>4 DEF IInv

(* A document that cannot be loaded is not well formed. *)
LEMMA BrokenIsIllFormed ==
  ASSUME NEW n \in Nodes, n \in Inside(Top(doc)), Broken(n)
  PROVE  ~Loadable
<1>1. n # Null
  BY IngestAssumption DEF IngestAssumption
<1>2. CASE Kind[n] \in {"invalid", "other"}
  BY <1>2 DEF WellFormed, Loadable
<1>3. CASE Kind[n] = "and" /\ Null \in Range(Subs[n])
  <2>1. Null \in Inside(Top(doc))
    BY <1>1, <1>3, InsideIsClosed
  <2> QED
    BY <2>1 DEF WellFormed, Loadable
<1> QED
  BY <1>2, <1>3 DEF Broken

(* The text of a reference is a name only if it is written plainly. *)
LEMMA FilterNamedIs ==
  ASSUME NEW f \in References
  PROVE  FilterNamed(String(f)) = IF f.style = "plain" THEN doc.filters[f.name] ELSE Absent
<1>1. f.name \in Names
  BY DEF References
<1>2. CASE f.style = "plain"
  <2>1. String(f) = <<f.name>>
    BY <1>2 DEF String
  <2>2. (CHOOSE n \in Names : String(f) = <<n>>) = f.name
    BY <1>1, <2>1
  <2>3. \E n \in Names : String(f) = <<n>>
    BY <1>1, <2>1
  <2> QED
    BY <1>2, <2>2, <2>3, Zenon DEF FilterNamed
<1>3. CASE f.style # "plain"
  <2>1. String(f) = <<f.style, f.name>>
    BY <1>3 DEF String
  <2>2. ~\E n \in Names : String(f) = <<n>>
    BY <2>1
  <2> QED
    BY <1>3, <2>2, Zenon DEF FilterNamed
<1> QED
  BY <1>2, <1>3

LEMMA ResolvedIsMeant ==
  ASSUME NEW f, ~Unresolved(f)
  PROVE  /\ Resolved(f) = Means(f)
         /\ f \in References => f.style = "plain" /\ doc.filters[f.name] # Absent
         /\ f # Null
<1>1. CASE f \in References
  <2>1. FilterNamed(String(f)) = IF f.style = "plain" THEN doc.filters[f.name] ELSE Absent
    BY <1>1, FilterNamedIs
  <2>2. FilterNamed(String(f)) # Absent /\ f # Null
    BY <1>1, Zenon DEF Unresolved
  <2>3. f.style = "plain"
    BY <2>1, <2>2
  <2>4. Resolved(f) = FilterNamed(String(f)) /\ Means(f) = doc.filters[f.name]
    BY <1>1, Zenon DEF Resolved, Means
  <2> QED
    BY <2>1, <2>2, <2>3, <2>4
<1>2. CASE f \notin References
  BY <1>2, Zenon DEF Unresolved, Resolved, Means
<1> QED
  BY <1>1, <1>2

LEMMA UnresolvedIsIllFormed ==
  ASSUME NEW k \in Keys, NEW f \in FiltersOf(doc.projects[k]), Unresolved(f)
  PROVE  ~Loadable
<1>1. CASE f = Null
  BY <1>1 DEF WellFormed, Loadable
<1>2. CASE f \in References /\ f.style = "plain"
  <2>1. doc.filters[f.name] = Absent
    BY <1>2, FilterNamedIs, IngestAssumption, Zenon DEF Unresolved, IngestAssumption
  <2> QED
    BY <1>2, <2>1 DEF WellFormed, Loadable
<1>3. CASE f \in References /\ f.style # "plain"
  BY <1>3 DEF PlainReferences, Loadable
<1> QED
  BY <1>1, <1>2, <1>3 DEF Unresolved

LEMMA ConfiguredStays ==
  ASSUME UNCHANGED doc
  PROVE  /\ \A k \in Keys : \A p : Configured(k, p)' = Configured(k, p)
         /\ \A f : Unresolved(f)' <=> Unresolved(f)
BY DEF Configured, Resolved, Unresolved, FilterNamed

LEMMA LoadStays ==
  ASSUME TypeInv, Resolving, UNCHANGED <<doc, left, projects>>,
         pc' \in {"decode", "resolve", "failed"} \/ left = {}
  PROVE  TypeInv' /\ Resolving'
<1>1. TypeInv'
  BY DEF TypeInv
<1>2. Resolving'
  BY ConfiguredStays DEF Resolving
<1> QED
  BY <1>1, <1>2

LEMMA DecodeFilterStep ==
  ASSUME IInv, NEW n \in Nodes, DecodeFilter(n)
  PROVE  IInv'
<1> USE DEF IInv
<1>1. n \in Inside(Top(doc)) /\ n # Null
  BY IngestAssumption DEF DecodeFilter, Decoding, IngestAssumption
<1>2. UNCHANGED <<doc, left, projects, serving>>
  BY DEF DecodeFilter, Fail, loading
<1>3. pc = "decode" /\ pc' \in {"decode", "failed"}
  BY DEF DecodeFilter, Fail
<1>4. TypeInv' /\ Resolving'
  BY <1>2, <1>3, LoadStays
<1>5. Asking'
  BY <1>2, <1>3 DEF Asking, serving
<1>6. CASE Broken(n)
  <2>1. pc' = "failed" /\ UNCHANGED undecoded
    BY <1>6 DEF DecodeFilter, Fail, loading
  <2>2. Decoding'
    BY <1>2, <2>1 DEF Decoding, Broken, Covered
  <2>3. ~Loadable'
    BY <1>1, <1>2, <1>6, BrokenIsIllFormed DEF WellFormed, PlainReferences, Loadable
  <2> QED
    BY <1>4, <1>5, <2>2, <2>3
<1>7. CASE ~Broken(n)
  <2> DEFINE children == IF Kind[n] = "and" THEN Range(Subs[n]) ELSE {}
  <2>1. undecoded' = (undecoded \ {n}) \cup children /\ pc' = "decode"
    BY <1>3, <1>7 DEF DecodeFilter
  <2>2. children \subseteq Nodes
    BY <1>7, SubsAreFilters DEF Broken, Filters
  <2>3. children \subseteq Inside(Top(doc))
    BY <1>1, InsideIsClosed
  <2>4. PICK S \in SUBSET Nodes : Covered(Top(doc), S, undecoded) /\ \A m \in S : ~Broken(m)
    BY DEF Decoding
  <2>5. Covered(Top(doc), S \cup {n}, undecoded')
    BY <2>1, <2>4 DEF Covered
  <2>6. Decoding'
    <3>1. Top(doc)' = Top(doc) /\ Inside(Top(doc))' = Inside(Top(doc))
      BY <1>2
    <3>2. undecoded' \subseteq Nodes \cap Inside(Top(doc))
      BY <2>1, <2>2, <2>3 DEF Decoding
    <3>3. S \cup {n} \in SUBSET Nodes /\ \A m \in S \cup {n} : ~Broken(m)
      BY <1>7, <2>4
    <3> QED
      BY <2>1, <2>5, <3>1, <3>2, <3>3 DEF Decoding
  <2> QED
    BY <1>4, <1>5, <2>1, <2>6
<1> QED
  BY <1>6, <1>7

LEMMA ResolveStep ==
  ASSUME IInv, NEW k \in Keys, Resolve(k)
  PROVE  IInv'
<1> USE DEF IInv
<1>1. k \in left /\ projects[k] = doc.projects[k] /\ pc = "resolve"
  BY DEF Resolve, Resolving
<1>2. UNCHANGED <<doc, undecoded, serving>> /\ pc' \in {"resolve", "failed"}
  BY <1>1 DEF Resolve, Fail, loading
<1>3. Decoding'
  BY <1>1, <1>2 DEF Decoding, Covered
<1>4. Asking'
  BY <1>1, <1>2 DEF Asking, serving
<1>5. CASE \E f \in FiltersOf(projects[k]) : Unresolved(f)
  <2>1. UNCHANGED <<left, projects>> /\ pc' = "failed"
    BY <1>5 DEF Resolve, Fail, loading
  <2>2. TypeInv' /\ Resolving'
    BY <1>2, <2>1, LoadStays
  <2>3. ~Loadable'
    BY <1>1, <1>2, <1>5, UnresolvedIsIllFormed DEF WellFormed, PlainReferences, Loadable
  <2> QED
    BY <1>3, <1>4, <2>2, <2>3
<1>6. CASE ~\E f \in FiltersOf(projects[k]) : Unresolved(f)
  <2>1. /\ projects' = [projects EXCEPT ![k] = Configured(k, doc.projects[k])]
        /\ left' = left \ {k}
        /\ pc' = pc
    BY <1>1, <1>6 DEF Resolve
  <2>2. TypeInv'
    BY <1>2, <2>1 DEF TypeInv
  <2>3. \A l \in Keys \ {k} : projects'[l] = projects[l]
    BY <2>1 DEF TypeInv
  <2>4. projects'[k] = Configured(k, doc.projects[k])
    BY <2>1 DEF TypeInv
  <2>5. doc.projects[k] # Absent
    BY <1>1 DEF Resolving
  <2>6. Resolving'
    BY <1>1, <1>2, <1>6, <2>1, <2>3, <2>4, <2>5, ConfiguredStays DEF Resolving
  <2> QED
    BY <1>1, <1>3, <1>4, <2>1, <2>2, <2>6
<1> QED
  BY <1>5, <1>6

-----------------------------------------------------------------------------
(* The steps that leave document and projects alone. *)
LEMMA DecodedStep ==
  ASSUME IInv, Decoded \/ Loaded
  PROVE  IInv'
<1> USE DEF IInv
<1>1. UNCHANGED <<doc, loading, serving>>
  BY DEF Decoded, Loaded
<1>2. \/ pc = "decode" /\ pc' = "resolve" /\ undecoded = {}
      \/ pc = "resolve" /\ pc' = "serve" /\ left = {}
  BY DEF Decoded, Loaded
<1>3. TypeInv' /\ Resolving'
  BY <1>1, <1>2, LoadStays DEF loading
<1>4. Decoding'
  BY <1>1, <1>2 DEF Decoding, Covered, loading, Broken
<1>5. Asking'
  BY <1>1, <1>2 DEF Asking, serving, loading
<1> QED
  BY <1>2, <1>3, <1>4, <1>5

(* What Load has left behind. *)
Configuration == pc \notin {"decode", "resolve", "failed"} /\ UNCHANGED <<doc, loading>>

LEMMA ServeStep ==
  ASSUME IInv, Configuration, pc' \notin {"decode", "resolve", "failed"}
  PROVE  /\ TypeInv' /\ Resolving' /\ Decoding'
         /\ \A k : Required(k)' = Required(k)
<1> USE DEF IInv, Configuration
<1>1. left = {} /\ undecoded = {}
  BY DEF Resolving, Decoding
<1>2. TypeInv' /\ Resolving'
  BY <1>1, LoadStays DEF loading
<1>3. Decoding'
  BY <1>1 DEF Decoding, Covered, loading, Broken
<1>4. \A k : Required(k)' = Required(k)
  BY DEF Required, Means
<1> QED
  BY <1>2, <1>3, <1>4

LEMMA AuthorizeStep ==
  ASSUME IInv, NEW scheme, NEW ps, Authorize(scheme, ps)
  PROVE  IInv'
<1> USE DEF IInv
<1>1. pc = "serve" /\ pc' \in {"unknown", "read"} /\ UNCHANGED <<doc, loading, event, asked>>
  BY DEF Authorize
<1>2. TypeInv' /\ Resolving' /\ Decoding'
  BY <1>1, ServeStep DEF Configuration
<1>3. pc' = "read" => key' \in Keys /\ projects[key'] # Absent
  BY DEF Authorize
<1>4. event' = Null /\ projects' = projects
  BY <1>1 DEF Asking, loading
<1>5. Asking'
  BY <1>1, <1>3, <1>4 DEF Asking
<1> QED
  BY <1>1, <1>2, <1>5

LEMMA AnswerStep ==
  ASSUME IInv, WrongMethod \/ BadBody \/ NoEvent
  PROVE  IInv'
<1> USE DEF IInv
<1>1. pc \in {"serve", "read"} /\ pc' \in {"refused", "ignored"} /\ UNCHANGED <<doc, loading, serving>>
  BY DEF WrongMethod, BadBody, NoEvent, Answer
<1>2. TypeInv' /\ Resolving' /\ Decoding'
  BY <1>1, ServeStep DEF Configuration
<1>3. Asking'
  BY <1>1 DEF Asking, serving, loading
<1> QED
  BY <1>1, <1>2, <1>3

-----------------------------------------------------------------------------
(* The filters of a project as they are asked: what its entries stand for. *)
LEMMA FiltersAreResolved ==
  ASSUME IInv, NEW k \in Keys, doc.projects[k] # Absent, left = {}
  PROVE  /\ projects[k].filters \in UpTo(Filters, MaxEntries)
         /\ projects[k].filters \in Seq(Filters)
         /\ Range(projects[k].filters) = {Means(f) : f \in FiltersOf(doc.projects[k])}
<1> USE DEF IInv
<1> DEFINE p == doc.projects[k]
<1>1. p # Absent /\ projects[k] = Configured(k, p) /\ \A f \in FiltersOf(p) : ~Unresolved(f)
  BY DEF Resolving
<1>2. CASE p = Null
  <2>1. projects[k].filters = <<>> /\ FiltersOf(p) = {}
    BY <1>1, <1>2 DEF Configured, FiltersOf
  <2>2. <<>> \in [1..0 -> Filters] /\ 0 \in 0..MaxEntries
    BY IngestAssumption DEF IngestAssumption
  <2> QED
    BY <2>1, <2>2 DEF Range, UpTo
<1>3. CASE p # Null
  <2>1. p \in Written
    BY <1>1, <1>3 DEF TypeInv, Documents
  <2>2. PICK n \in 0..MaxEntries : p.filters \in [1..n -> Entries]
    BY <2>1 DEF Written, UpTo
  <2>3. projects[k].filters = [i \in 1..n |-> Resolved(p.filters[i])]
    <3>1. DOMAIN p.filters = 1..n
      BY <2>2
    <3>2. projects[k].filters = [i \in DOMAIN p.filters |-> Resolved(p.filters[i])]
      <4>1. Configured(k, p).filters
              = IF p = Null THEN <<>> ELSE [i \in DOMAIN p.filters |-> Resolved(p.filters[i])]
        BY Zenon DEF Configured
      <4> QED
        BY <1>1, <1>3, <4>1, Zenon
    <3> QED
      BY <3>1, <3>2
  <2>4. FiltersOf(p) = {p.filters[i] : i \in 1..n}
    BY <1>1, <1>3, <2>2 DEF FiltersOf, Range
  <2>5. \A f \in FiltersOf(p) : Resolved(f) \in Filters
    <3>1. SUFFICES ASSUME NEW f \in FiltersOf(p)
                   PROVE  Resolved(f) \in Filters
      OBVIOUS
    <3>2. f \in Entries
      BY <2>2, <2>4
    <3>3. /\ Resolved(f) = Means(f)
          /\ f \in References => doc.filters[f.name] # Absent
      BY <1>1, ResolvedIsMeant
    <3>4. \A name \in Names : doc.filters[name] \in Filters \cup {Absent}
      BY DEF TypeInv, Documents, Filters
    <3> HIDE DEF p
    <3>5. CASE f \in References
      <4>1. f.name \in Names
        BY <3>5 DEF References
      <4> QED
        BY <3>3, <3>4, <3>5, <4>1, Zenon DEF Means
    <3>6. CASE f \notin References
      <4>1. f \in Filters
        BY <3>2, <3>6 DEF Entries, Filters
      <4> QED
        BY <3>3, <3>6, <4>1, Zenon DEF Means
    <3> QED
      BY <3>5, <3>6
  <2>6. projects[k].filters \in Seq(Filters) /\ projects[k].filters \in UpTo(Filters, MaxEntries)
    <3>1. \A i \in 1..n : Resolved(p.filters[i]) \in Filters
      BY <2>4, <2>5
    <3>2. n \in Nat
      BY <2>2, IngestAssumption DEF IngestAssumption
    <3>3. projects[k].filters \in [1..n -> Filters]
      BY <2>3, <3>1
    <3> QED
      BY <2>3, <3>1, <3>2, <3>3, IsASeq DEF UpTo
  <2>7. Range(projects[k].filters) = {Means(p.filters[i]) : i \in 1..n}
    <3>1. \A i \in 1..n : Resolved(p.filters[i]) = Means(p.filters[i])
      BY <1>1, <2>4, ResolvedIsMeant
    <3>2. Range(projects[k].filters) = {Resolved(p.filters[i]) : i \in 1..n}
      BY <2>3 DEF Range
    <3> QED
      BY <3>1, <3>2
  <2> QED
    BY <2>4, <2>6, <2>7
<1> QED
  BY <1>2, <1>3

LEMMA DecodeEventStep ==
  ASSUME IInv, DecodeEvent
  PROVE  IInv'
<1> USE DEF IInv
<1> DEFINE first == {Means(f) : f \in FiltersOf(doc.projects[key])}
<1>1. pc = "read" /\ pc' = "filter" /\ UNCHANGED <<doc, loading, sent, clear, key>>
  BY DEF DecodeEvent
<1>2. TypeInv' /\ Resolving' /\ Decoding' /\ Required(key)' = Required(key)
  BY <1>1, ServeStep DEF Configuration
<1>3. key \in Keys /\ projects[key] # Absent /\ left = {}
  BY <1>1 DEF Asking, Resolving
<1>4. asked' \in Seq(Filters) /\ Range(asked') = first
  <2>1. doc.projects[key] # Absent
    BY <1>3 DEF Resolving
  <2> QED
    BY <1>3, <2>1, FiltersAreResolved DEF DecodeEvent
<1>5. first \subseteq Filters
  BY <1>4, RangeOfSeq
<1>6. Range(asked') \subseteq Required(key)
  BY <1>4, <1>5, InsideHolds DEF Required
<1>7. Covered(first, {}, Range(asked'))
  BY <1>4 DEF Covered
<1>8. first' = first
  BY <1>1 DEF Means
<1>9. \E S \in SUBSET Nodes : Covered(first', S, Range(asked')) /\ \A m \in S : IsAnd(m)
  <2>1. Covered(first', {}, Range(asked'))
    BY <1>7, <1>8
  <2> HIDE DEF first
  <2> WITNESS {} \in SUBSET Nodes
  <2> QED
    BY <2>1
<1>10. Asking'
  BY <1>1, <1>2, <1>3, <1>4, <1>6, <1>9 DEF Asking, loading
<1> QED
  BY <1>1, <1>2, <1>10

LEMMA AskAndStep ==
  ASSUME IInv, AskAnd
  PROVE  IInv'
<1> USE DEF IInv
<1> DEFINE first == {Means(f) : f \in FiltersOf(doc.projects[key])}
           n == Head(asked)
<1>1. /\ pc = "filter" /\ pc' = "filter" /\ asked # <<>> /\ IsAnd(n)
      /\ asked' = Subs[n] \o Tail(asked)
      /\ UNCHANGED <<doc, loading, sent, clear, key, event>>
  BY DEF AskAnd, Conjuncts
<1>2. TypeInv' /\ Resolving' /\ Decoding' /\ Required(key)' = Required(key)
  BY <1>1, ServeStep DEF Configuration
<1>3. asked \in Seq(Filters) /\ Range(asked) \subseteq Required(key) /\ key \in Keys /\ projects[key] # Absent
  BY <1>1 DEF Asking
<1>4. PICK S \in SUBSET Nodes : Covered(first, S, Range(asked)) /\ \A m \in S : IsAnd(m)
  BY <1>1 DEF Asking
<1>5. n \in Nodes /\ n # Null /\ Kind[n] = "and" /\ Subs[n] \in Seq(Filters)
  BY <1>1, IngestAssumption DEF IngestAssumption, IsAnd, Filters
<1>6. Tail(asked) \in Seq(Filters) /\ Range(asked) = {n} \cup Range(Tail(asked))
  <2>1. asked = <<n>> \o Tail(asked) /\ Tail(asked) \in Seq(Filters)
    BY <1>1, <1>3, HeadTailProperties, SMT
  <2>2. <<n>> \in Seq(Filters) /\ Range(<<n>>) = {n}
    BY <1>5 DEF Range, Filters
  <2>3. Range(<<n>> \o Tail(asked)) = {n} \cup Range(Tail(asked))
    BY <2>1, <2>2, RangeOfConcatenation
  <2> QED
    BY <2>1, <2>3
<1>7. asked' \in Seq(Filters) /\ Range(asked') = Range(Subs[n]) \cup Range(Tail(asked))
  <2>1. /\ Subs[n] \o Tail(asked) \in Seq(Filters)
        /\ Range(Subs[n] \o Tail(asked)) = Range(Subs[n]) \cup Range(Tail(asked))
    BY <1>5, <1>6, RangeOfConcatenation
  <2> QED
    BY <1>1, <2>1
<1>8. Range(asked') \subseteq Required(key)
  <2>1. n \in Required(key)
    BY <1>3, <1>6
  <2>2. Range(Subs[n]) \subseteq Required(key)
    BY <1>5, <2>1, InsideIsClosed DEF Required
  <2> QED
    BY <1>3, <1>6, <1>7, <2>2
<1>9. Covered(first, S \cup {n}, Range(asked')) /\ S \cup {n} \in SUBSET Nodes
  BY <1>4, <1>5, <1>6, <1>7 DEF Covered
<1>10. first' = first
  BY <1>1 DEF Means
<1>11. \A m \in S \cup {n} : IsAnd(m)
  BY <1>1, <1>4
<1>12. Asking'
  BY <1>1, <1>2, <1>3, <1>7, <1>8, <1>9, <1>10, <1>11 DEF Asking, loading
<1> QED
  BY <1>1, <1>2, <1>12

LEMMA AskedStep ==
  ASSUME IInv, AskOther \/ Batch
  PROVE  IInv'
<1> USE DEF IInv
<1>1. pc = "filter" /\ UNCHANGED <<doc, loading, serving>>
  BY DEF AskOther, Batch, Answer
<1>2. \/ pc' = "aborted" /\ asked # <<>> /\ ~IsAnd(Head(asked))
      \/ pc' = "batched" /\ asked = <<>>
  BY DEF AskOther, Batch, Answer
<1>3. TypeInv' /\ Resolving' /\ Decoding' /\ Required(key)' = Required(key)
  BY <1>1, <1>2, ServeStep DEF Configuration, serving
<1>4. Asking'
  BY <1>1, <1>2, <1>3 DEF Asking, serving, loading, Means
<1> QED
  BY <1>2, <1>3, <1>4

LEMMA StepIInv == IInv /\ [Next]_vars => IInv'
<1> SUFFICES ASSUME IInv, [Next]_vars
             PROVE  IInv'
  OBVIOUS
<1>1. CASE UNCHANGED vars
  <2>1. UNCHANGED <<doc, pc, undecoded, left, projects, key, event, asked>>
    BY <1>1 DEF vars, loading, serving
  <2>2. TypeInv' /\ Resolving'
    BY <2>1, LoadStays DEF IInv, Resolving
  <2>3. Decoding'
    BY <2>1 DEF IInv, Decoding, Covered, Broken
  <2>4. Asking'
    BY <2>1 DEF IInv, Asking, Required, Means
  <2>5. Loadable' = Loadable
    BY <2>1 DEF WellFormed, PlainReferences, Loadable
  <2> QED
    BY <2>1, <2>2, <2>3, <2>4, <2>5 DEF IInv
<1> QED
  BY <1>1, DecodeFilterStep, DecodedStep, ResolveStep, AuthorizeStep, AnswerStep,
     DecodeEventStep, AskAndStep, AskedStep
  DEF Next, Done

LEMMA Invariance == Spec => []IInv
  BY InitIInv, StepIInv, PTL DEF Spec

-----------------------------------------------------------------------------
(* A document is accepted exactly if all filters in it can be decoded and  *)
(* all references are plain names of filters, however they are nested and  *)
(* in whatever order the maps are walked.                                  *)
THEOREM LoadIsExact == Spec => []LoadExact
<1>1. IInv => LoadExact
  <2> SUFFICES ASSUME IInv
               PROVE  LoadExact
    OBVIOUS
  <2> USE DEF IInv
  <2>1. ASSUME pc = "serve"
        PROVE  WellFormed(doc) /\ PlainReferences(doc)
    <3>1. undecoded = {} /\ left = {}
      BY <2>1 DEF Decoding, Resolving
    <3>2. PICK S \in SUBSET Nodes : Covered(Top(doc), S, {}) /\ \A n \in S : ~Broken(n)
      BY <3>1 DEF Decoding
    <3>3. Inside(Top(doc)) \subseteq S
      BY <3>2, InsideIsLeast
    <3>4. \A n \in Inside(Top(doc)) : n # Null /\ Kind[n] \notin {"invalid", "other"}
      BY <3>2, <3>3, IngestAssumption DEF IngestAssumption, Broken
    <3>5. ASSUME NEW k \in Keys, NEW f \in FiltersOf(doc.projects[k])
          PROVE  ~Unresolved(f)
      <4>1. doc.projects[k] # Absent
        BY <3>5 DEF FiltersOf
      <4> QED
        BY <3>1, <3>5, <4>1 DEF Resolving
    <3>6. \A k \in Keys : \A f \in FiltersOf(doc.projects[k]) :
            f # Null /\ (f \in References => f.style = "plain" /\ doc.filters[f.name] # Absent)
      BY <3>5, ResolvedIsMeant
    <3> QED
      BY <3>4, <3>6 DEF WellFormed, PlainReferences
  <2> QED
    BY <2>1 DEF LoadExact, Loadable
<1> QED
  BY <1>1, Invariance, PTL

(* An event is batched only if all filters that its project requires let   *)
(* it pass, and aborted only if one of them cannot.                        *)
THEOREM FiltersAreAsked == Spec => []FilteredOrAborted
<1>1. IInv => FilteredOrAborted
  <2> SUFFICES ASSUME IInv
               PROVE  FilteredOrAborted
    OBVIOUS
  <2> USE DEF IInv
  <2>1. event # Null => pc \in {"filter", "batched", "aborted"}
    BY DEF Asking
  <2>2. ASSUME pc = "batched"
        PROVE  \A n \in Required(key) : IsAnd(n)
    <3>1. Range(asked) = {}
      BY <2>2 DEF Asking, Range
    <3>2. PICK S \in SUBSET Nodes :
            /\ Covered({Means(f) : f \in FiltersOf(doc.projects[key])}, S, {})
            /\ \A n \in S : IsAnd(n)
      BY <2>2, <3>1 DEF Asking
    <3>3. Required(key) \subseteq S
      BY <3>2, InsideIsLeast DEF Required
    <3> QED
      BY <3>2, <3>3
  <2>3. ASSUME pc = "aborted"
        PROVE  \E n \in Required(key) : ~IsAnd(n)
    <3>1. asked \in Seq(Filters) /\ asked # <<>> /\ ~IsAnd(Head(asked))
      BY <2>3 DEF Asking
    <3>2. Head(asked) \in Range(asked)
      BY <3>1 DEF Range
    <3> QED
      BY <2>3, <3>1, <3>2 DEF Asking
  <2> QED
    BY <2>1, <2>2, <2>3 DEF FilteredOrAborted
<1> QED
  BY <1>1, Invariance, PTL

-----------------------------------------------------------------------------
(* The header, as a text of parts, and the key that is found in it.        *)
Parts == {"Sentry ", "Bearer ", ","} \cup Words

FirstAt(s, part) == SelectInSeq(s, LAMBDA x : x = part)

Starts(t, part) == t # <<>> /\ t[1] = part

LEMMA FirstAtIs ==
  ASSUME NEW s \in Seq(Parts), NEW part
  PROVE  /\ FirstAt(s, part) \in 0..Len(s)
         /\ FirstAt(s, part) # 0 => s[FirstAt(s, part)] = part
         /\ \A i \in 1..Len(s) : s[i] = part => FirstAt(s, part) # 0 /\ FirstAt(s, part) <= i
<1> DEFINE I == {i \in 1..Len(s) : s[i] = part}
<1>1. FirstAt(s, part) = IF I # {} THEN Min(I) ELSE 0
  BY DEF FirstAt, SelectInSeq
<1>2. I \in SUBSET Nat
  OBVIOUS
<1>3. I # {} => Min(I) \in I /\ \A k \in I : Min(I) <= k
  <2> HIDE DEF I
  <2> QED
    BY <1>2, MinIs
<1>4. CASE I = {}
  BY <1>1, <1>4
<1>5. CASE I # {}
  <2> DEFINE m == FirstAt(s, part)
  <2>1. m \in I /\ \A k \in I : m <= k
    BY <1>1, <1>3, <1>5
  <2>2. m \in 1..Len(s) /\ s[m] = part
    BY <2>1
  <2>3. \A i \in 1..Len(s) : s[i] = part => m <= i
    BY <2>1
  <2> HIDE DEF m, I
  <2>4. m \in 0..Len(s) /\ m # 0
    BY <2>2
  <2> QED
    BY <2>2, <2>3, <2>4 DEF m
<1> QED
  BY <1>4, <1>5

LEMMA FirstAtFound ==
  ASSUME NEW s \in Seq(Parts), NEW part, NEW i \in 1..Len(s),
         s[i] = part, \A k \in 1..i-1 : s[k] # part
  PROVE  FirstAt(s, part) = i
BY FirstAtIs

LEMMA FirstAtNone ==
  ASSUME NEW s \in Seq(Parts), NEW part, \A k \in 1..Len(s) : s[k] # part
  PROVE  FirstAt(s, part) = 0
BY FirstAtIs

LEMMA BeforeIs ==
  ASSUME NEW t, NEW s
  PROVE  Before(t, s) = IF FirstAt(s, t) = 0 THEN s ELSE SubSeq(s, 1, FirstAt(s, t) - 1)
BY DEF Before, FirstAt

LEMMA ProjectKeyIs ==
  ASSUME NEW s
  PROVE  ProjectKey(s) = IF Head(s) # "Sentry " \/ FirstAt(s, "sentry_key=") = 0 THEN <<>>
                         ELSE Before(",", SubSeq(s, FirstAt(s, "sentry_key=") + 1, Len(s)))
BY DEF ProjectKey, FirstAt

(* What is before the first comma does not change when something that      *)
(* starts with a comma is added.                                           *)
LEMMA BeforeStays ==
  ASSUME NEW c, NEW u \in Seq(Parts), NEW t \in Seq(Parts), Starts(t, c)
  PROVE  Before(c, u \o t) = Before(c, u)
<1>1. /\ u \o t \in Seq(Parts) /\ Len(u \o t) = Len(u) + Len(t)
      /\ \A i \in 1..Len(u) + Len(t) : (u \o t)[i] = IF i <= Len(u) THEN u[i] ELSE t[i - Len(u)]
  BY ConcatProperties
<1>2. Len(u) \in Nat /\ Len(t) \in Nat /\ Len(t) > 0 /\ t[1] = c
  <2>1. t # <<>> /\ t[1] = c
    BY DEF Starts
  <2>2. Len(t) # 0
    BY <2>1, EmptySeq
  <2> QED
    BY <2>1, <2>2
<1>3. CASE FirstAt(u, c) # 0
  <2> DEFINE j == FirstAt(u, c)
  <2>1. j \in 1..Len(u) /\ u[j] = c /\ \A k \in 1..j-1 : u[k] # c
    BY <1>2, <1>3, FirstAtIs
  <2>2. FirstAt(u \o t, c) = j
    <3>1. j \in 1..Len(u \o t) /\ (u \o t)[j] = c /\ \A k \in 1..j-1 : (u \o t)[k] # c
      BY <1>1, <1>2, <2>1
    <3> QED
      BY <1>1, <3>1, FirstAtFound
  <2>3. SubSeq(u \o t, 1, j - 1) = SubSeq(u, 1, j - 1)
    <3>1. CASE j = 1
      BY <3>1, SubSeqEmpty
    <3>2. CASE j # 1
      <4>1. 1 \in 1..Len(u) /\ j - 1 \in 1..Len(u)
        BY <1>2, <2>1, <3>2
      <4> QED
        BY <4>1, SubSeqOfConcat1
    <3> QED
      BY <3>1, <3>2
  <2> QED
    BY <1>3, <2>2, <2>3, BeforeIs
<1>4. CASE FirstAt(u, c) = 0
  <2>1. \A k \in 1..Len(u) : u[k] # c
    BY <1>4, FirstAtIs
  <2>2. FirstAt(u \o t, c) = Len(u) + 1
    <3>1. /\ Len(u) + 1 \in 1..Len(u \o t) /\ (u \o t)[Len(u) + 1] = c
          /\ \A k \in 1..(Len(u) + 1) - 1 : (u \o t)[k] # c
      BY <1>1, <1>2, <2>1
    <3> QED
      BY <1>1, <3>1, FirstAtFound
  <2>3. SubSeq(u \o t, 1, Len(u)) = u
    <3>1. CASE Len(u) = 0
      BY <3>1, SubSeqEmpty, EmptySeq
    <3>2. CASE Len(u) # 0
      <4>1. 1 \in 1..Len(u) /\ Len(u) \in 1..Len(u)
        BY <1>2, <3>2
      <4>2. SubSeq(u \o t, 1, Len(u)) = SubSeq(u, 1, Len(u))
        BY <4>1, SubSeqOfConcat1
      <4> QED
        BY <4>2, SubSeqFull
    <3> QED
      BY <3>1, <3>2
  <2>4. (Len(u) + 1) - 1 = Len(u) /\ Len(u) + 1 # 0
    BY <1>2
  <2> QED
    BY <1>4, <2>2, <2>3, <2>4, BeforeIs
<1> QED
  BY <1>3, <1>4

LEMMA HeadOfConcat ==
  ASSUME NEW s \in Seq(Parts), NEW t \in Seq(Parts), Len(s) # 0
  PROVE  Head(s \o t) = Head(s)
<1>1. Len(s) \in Nat /\ Len(t) \in Nat /\ 1 \in 1..Len(s) + Len(t) /\ 1 <= Len(s)
  OBVIOUS
<1>2. /\ Len(s \o t) = Len(s) + Len(t)
      /\ \A k \in 1..Len(s) + Len(t) : (s \o t)[k] = IF k <= Len(s) THEN s[k] ELSE t[k - Len(s)]
      /\ s \o t \in Seq(Parts)
  BY ConcatProperties
<1>3. (s \o t)[1] = s[1]
  BY <1>1, <1>2
<1>4. s # <<>> /\ s \o t # <<>>
  BY <1>1, <1>2, EmptySeq
<1> QED
  BY <1>2, <1>3, <1>4

LEMMA RestOfConcat ==
  ASSUME NEW s \in Seq(Parts), NEW t \in Seq(Parts), NEW i \in 1..Len(s)
  PROVE  /\ SubSeq(s \o t, i + 1, Len(s \o t)) = SubSeq(s, i + 1, Len(s)) \o t
         /\ SubSeq(s, i + 1, Len(s)) \in Seq(Parts)
<1> DEFINE u == SubSeq(s, i + 1, Len(s))
           w == SubSeq(s \o t, i + 1, Len(s \o t))
<1>1. /\ s \o t \in Seq(Parts) /\ Len(s \o t) = Len(s) + Len(t)
      /\ \A k \in 1..Len(s) + Len(t) : (s \o t)[k] = IF k <= Len(s) THEN s[k] ELSE t[k - Len(s)]
  BY ConcatProperties
<1>2. Len(s) \in Nat /\ Len(t) \in Nat /\ i \in Nat /\ i <= Len(s)
  OBVIOUS
<1>3. /\ u \in Seq(Parts) /\ Len(u) = Len(s) - i
      /\ \A k \in 1..Len(s) - i : u[k] = s[i + k]
  <2>1. \A k \in i + 1..Len(s) : s[k] \in Parts
    OBVIOUS
  <2>2. /\ u \in Seq(Parts)
        /\ Len(u) = IF i + 1 <= Len(s) THEN Len(s) - (i + 1) + 1 ELSE 0
        /\ \A k \in 1..Len(s) - (i + 1) + 1 : u[k] = s[(i + 1) + k - 1]
    BY <1>2, <2>1, SubSeqProperties
  <2> HIDE DEF u
  <2>3. Len(u) = Len(s) - i
    BY <1>2, <2>2
  <2>4. ASSUME NEW k \in 1..Len(s) - i
        PROVE  u[k] = s[i + k]
    <3>1. k \in 1..Len(s) - (i + 1) + 1 /\ (i + 1) + k - 1 = i + k
      BY <1>2
    <3> QED
      BY <2>2, <3>1
  <2> QED
    BY <2>2, <2>3, <2>4
<1>4. /\ w \in Seq(Parts) /\ Len(w) = Len(s) + Len(t) - i
      /\ \A k \in 1..Len(s) + Len(t) - i : w[k] = (s \o t)[i + k]
  <2> DEFINE st == s \o t
             n == Len(s) + Len(t)
  <2>1. n \in Nat /\ st \in Seq(Parts) /\ Len(st) = n /\ i <= n
    BY <1>1, <1>2
  <2> HIDE DEF st, n
  <2>2. \A k \in i + 1..n : st[k] \in Parts
    BY <1>2, <2>1
  <2>3. /\ SubSeq(st, i + 1, n) \in Seq(Parts)
        /\ Len(SubSeq(st, i + 1, n)) = IF i + 1 <= n THEN n - (i + 1) + 1 ELSE 0
        /\ \A k \in 1..n - (i + 1) + 1 : SubSeq(st, i + 1, n)[k] = st[(i + 1) + k - 1]
    BY <1>2, <2>1, <2>2, SubSeqProperties
  <2>4. Len(SubSeq(st, i + 1, n)) = n - i
    BY <1>2, <2>1, <2>3
  <2>5. ASSUME NEW k \in 1..n - i
        PROVE  SubSeq(st, i + 1, n)[k] = st[i + k]
    <3>1. k \in 1..n - (i + 1) + 1 /\ (i + 1) + k - 1 = i + k
      BY <1>2, <2>1
    <3> QED
      BY <2>3, <3>1
  <2> QED
    BY <2>1, <2>3, <2>4, <2>5 DEF st, n
<1>5. /\ u \o t \in Seq(Parts) /\ Len(u \o t) = Len(u) + Len(t)
      /\ \A k \in 1..Len(u) + Len(t) : (u \o t)[k] = IF k <= Len(u) THEN u[k] ELSE t[k - Len(u)]
  BY <1>3, ConcatProperties
<1> HIDE DEF u, w
<1>6. ASSUME NEW k \in 1..Len(w)
      PROVE  w[k] = (u \o t)[k]
  <2>1. k \in 1..Len(s) + Len(t) - i /\ k \in 1..Len(u) + Len(t) /\ i + k \in 1..Len(s) + Len(t)
    BY <1>2, <1>3, <1>4
  <2>2. CASE k <= Len(s) - i
    BY <1>1, <1>2, <1>3, <1>4, <1>5, <2>1, <2>2
  <2>3. CASE k > Len(s) - i
    <3>1. (i + k) - Len(s) = k - Len(u) /\ ~(i + k <= Len(s)) /\ ~(k <= Len(u))
      BY <1>2, <1>3, <2>1, <2>3
    <3> QED
      BY <1>1, <1>4, <1>5, <2>1, <3>1
  <2> QED
    BY <1>2, <2>1, <2>2, <2>3, SMTT(30)
<1>7. w = u \o t
  <2>1. w \in Seq(Parts) /\ u \o t \in Seq(Parts)
    BY <1>4, <1>5
  <2>2. Len(w) = Len(u \o t)
    BY <1>2, <1>3, <1>4, <1>5
  <2> QED
    BY <1>6, <2>1, <2>2, SeqEqual, Zenon
<1> QED
  BY <1>3, <1>7 DEF u, w

(* What is found first is found when something is added. *)
LEMMA FirstAtStays ==
  ASSUME NEW part, NEW s \in Seq(Parts), NEW t \in Seq(Parts), FirstAt(s, part) # 0
  PROVE  FirstAt(s \o t, part) = FirstAt(s, part) /\ FirstAt(s, part) \in 1..Len(s) /\ Len(s) # 0
<1> DEFINE i == FirstAt(s, part)
           st == s \o t
<1>1. i \in 1..Len(s) /\ s[i] = part /\ \A k \in 1..i-1 : s[k] # part
  BY FirstAtIs
<1>2. /\ st \in Seq(Parts) /\ Len(st) = Len(s) + Len(t)
      /\ \A k \in 1..Len(s) + Len(t) : st[k] = IF k <= Len(s) THEN s[k] ELSE t[k - Len(s)]
  BY ConcatProperties
<1>3. Len(s) \in Nat /\ Len(t) \in Nat
  OBVIOUS
<1> HIDE DEF i, st
<1>4. \A k \in 1..Len(s) : st[k] = s[k]
  BY <1>2, <1>3
<1>5. i \in 1..Len(st) /\ st[i] = part
  BY <1>1, <1>2, <1>3, <1>4
<1>6. \A k \in 1..i-1 : st[k] # part
  BY <1>1, <1>3, <1>4
<1>7. FirstAt(st, part) = i
  BY <1>2, <1>5, <1>6, FirstAtFound
<1>8. Len(s) # 0
  BY <1>1, <1>3
<1> QED
  BY <1>1, <1>7, <1>8 DEF i, st

(* Parameters after the one with the key do not matter. *)
LEMMA ProjectKeyStays ==
  ASSUME NEW s \in Seq(Parts), NEW t \in Seq(Parts), Starts(t, ","),
         FirstAt(s, "sentry_key=") # 0
  PROVE  /\ FirstAt(s \o t, "sentry_key=") # 0
         /\ ProjectKey(s \o t) = ProjectKey(s)
<1> DEFINE i == FirstAt(s, "sentry_key=")
<1>1. FirstAt(s \o t, "sentry_key=") = i /\ i \in 1..Len(s) /\ Len(s) # 0
  BY FirstAtStays
<1>2. Head(s \o t) = Head(s)
  <2> HIDE DEF i
  <2> QED
    BY <1>1, HeadOfConcat
<1>3. Before(",", SubSeq(s \o t, i + 1, Len(s \o t))) = Before(",", SubSeq(s, i + 1, Len(s)))
  <2> HIDE DEF i
  <2> DEFINE u == SubSeq(s, i + 1, Len(s))
  <2>1. SubSeq(s \o t, i + 1, Len(s \o t)) = u \o t /\ u \in Seq(Parts)
    BY <1>1, RestOfConcat
  <2> HIDE DEF u
  <2>2. Before(",", u \o t) = Before(",", u)
    BY <2>1, BeforeStays
  <2> QED
    BY <2>1, <2>2 DEF u
<1> QED
  BY <1>1, <1>2, <1>3, ProjectKeyIs, Zenon

(* The empty rest of a text. *)
LEMMA RestIsEmpty ==
  ASSUME NEW s \in Seq(Parts)
  PROVE  SubSeq(s, Len(s) + 1, Len(s)) = <<>>
BY SubSeqEmpty

LEMMA OnePart ==
  ASSUME NEW part \in Parts
  PROVE  <<part>> \in Seq(Parts) /\ Len(<<part>>) = 1 /\ <<part>>[1] = part
OBVIOUS

LEMMA AddPart ==
  ASSUME NEW s \in Seq(Parts), NEW part \in Parts
  PROVE  /\ s \o <<part>> \in Seq(Parts)
         /\ Len(s \o <<part>>) = Len(s) + 1
         /\ Len(s) + 1 \in 1..Len(s) + 1
         /\ Len(s) + 1 # 0
BY OnePart, ConcatProperties

(* What is in neither of two texts is not in the one after the other. *)
LEMMA NoneOfConcat ==
  ASSUME NEW part, NEW s \in Seq(Parts), NEW t \in Seq(Parts),
         FirstAt(s, part) = 0, FirstAt(t, part) = 0
  PROVE  FirstAt(s \o t, part) = 0
<1>1. (\A k \in 1..Len(s) : s[k] # part) /\ (\A k \in 1..Len(t) : t[k] # part)
  BY FirstAtIs
<1>2. /\ s \o t \in Seq(Parts) /\ Len(s \o t) = Len(s) + Len(t)
      /\ \A k \in 1..Len(s) + Len(t) : (s \o t)[k] = IF k <= Len(s) THEN s[k] ELSE t[k - Len(s)]
  BY ConcatProperties
<1>3. Len(s) \in Nat /\ Len(t) \in Nat
  OBVIOUS
<1>4. ASSUME NEW k \in 1..Len(s) + Len(t)
      PROVE  (s \o t)[k] # part
  <2>1. CASE k <= Len(s)
    <3>1. k \in 1..Len(s)
      BY <1>3, <2>1
    <3> QED
      BY <1>1, <1>2, <2>1, <3>1
  <2>2. CASE ~(k <= Len(s))
    <3>1. k - Len(s) \in 1..Len(t)
      BY <1>3, <2>2
    <3> QED
      BY <1>1, <1>2, <2>2, <3>1
  <2> QED
    BY <2>1, <2>2
<1> QED
  BY <1>2, <1>4, FirstAtNone

LEMMA OneIsNot ==
  ASSUME NEW part, NEW other \in Parts, other # part
  PROVE  FirstAt(<<other>>, part) = 0
<1>1. \A k \in 1..1 : <<other>>[k] # part
  BY OnePart
<1> QED
  BY <1>1, OnePart, FirstAtNone

LEMMA EmptyIsNot ==
  ASSUME NEW part
  PROVE  <<>> \in Seq(Parts) /\ FirstAt(<<>>, part) = 0
<1> DEFINE s == <<>>
<1>1. s \in Seq(Parts) /\ Len(s) = 0
  BY EmptySeq
<1> HIDE DEF s
<1>2. \A k \in 1..Len(s) : s[k] # part
  BY <1>1
<1>3. FirstAt(s, part) = 0
  BY <1>1, <1>2, FirstAtNone
<1> QED
  BY <1>1, <1>3 DEF s

LEMMA PartsAre ==
  /\ "Sentry " \in Parts /\ "Bearer " \in Parts /\ "," \in Parts
  /\ "sentry_key=" \in Parts
BY HeaderAssumption DEF HeaderAssumption, Parts

(* The part that is added is the first of its kind. *)
LEMMA FirstAtEnd ==
  ASSUME NEW part \in Parts, NEW s \in Seq(Parts), FirstAt(s, part) = 0
  PROVE  FirstAt(s \o <<part>>, part) = Len(s) + 1
<1> DEFINE t == <<part>>
           st == s \o t
<1>1. t \in Seq(Parts) /\ Len(t) = 1 /\ t[1] = part
  BY OnePart
<1>2. \A k \in 1..Len(s) : s[k] # part
  BY FirstAtIs
<1> HIDE DEF t
<1>3. /\ st \in Seq(Parts) /\ Len(st) = Len(s) + Len(t)
      /\ \A k \in 1..Len(s) + Len(t) : st[k] = IF k <= Len(s) THEN s[k] ELSE t[k - Len(s)]
  BY <1>1, ConcatProperties
<1> HIDE DEF st
<1>4. Len(s) \in Nat
  OBVIOUS
<1>5. /\ Len(s) + 1 \in 1..Len(st) /\ Len(s) + 1 \in 1..Len(s) + Len(t)
      /\ ~(Len(s) + 1 <= Len(s)) /\ Len(s) + 1 - Len(s) = 1
  BY <1>1, <1>3, <1>4
<1>6. st[Len(s) + 1] = part
  BY <1>1, <1>3, <1>5
<1>7. \A k \in 1..(Len(s) + 1) - 1 : st[k] # part
  BY <1>1, <1>2, <1>3, <1>4
<1> QED
  BY <1>3, <1>5, <1>6, <1>7, FirstAtFound, ZenonT(60) DEF st, t

(* The value of the parameter is the key. *)
LEMMA ProjectKeyFound ==
  ASSUME NEW s \in Seq(Parts), Len(s) # 0, Head(s) = "Sentry ", FirstAt(s, "sentry_key=") = 0,
         NEW v \in Seq(Parts), FirstAt(v, ",") = 0
  PROVE  LET h == (s \o <<"sentry_key=">>) \o v
         IN FirstAt(h, "sentry_key=") # 0 /\ ProjectKey(h) = v
<1> DEFINE t == s \o <<"sentry_key=">>
           h == t \o v
           i == Len(s) + 1
<1>1. "sentry_key=" \in Parts
  BY PartsAre
<1>2. t \in Seq(Parts) /\ Len(t) = i /\ i \in 1..i /\ i # 0
  BY <1>1, AddPart
<1>3. FirstAt(t, "sentry_key=") = i
  BY <1>1, FirstAtEnd
<1>4. Head(t) = Head(s)
  BY <1>1, OnePart, HeadOfConcat
<1> HIDE DEF t, i
<1>6. FirstAt(h, "sentry_key=") = i
  BY <1>2, <1>3, FirstAtStays
<1>7. Head(h) = "Sentry "
  BY <1>2, <1>4, HeadOfConcat
<1>8. SubSeq(h, i + 1, Len(h)) = v
  <2>1. SubSeq(h, i + 1, Len(h)) = SubSeq(t, i + 1, Len(t)) \o v
    BY <1>2, RestOfConcat
  <2>2. SubSeq(t, i + 1, Len(t)) = <<>>
    BY <1>2, RestIsEmpty
  <2> QED
    BY <2>1, <2>2, ConcatEmptySeq
<1>9. Before(",", v) = v
  BY BeforeIs
<1> HIDE DEF h
<1>10. ProjectKey(h) = v
  BY <1>2, <1>6, <1>7, <1>8, <1>9, ProjectKeyIs, Zenon
<1> QED
  BY <1>2, <1>6, <1>10 DEF h, t

LEMMA OneStarts ==
  ASSUME NEW part \in Parts, NEW t \in Seq(Parts)
  PROVE  Starts(<<part>> \o t, part)
<1> DEFINE o == <<part>>
<1>1. o \in Seq(Parts) /\ Len(o) = 1 /\ o[1] = part
  BY OnePart
<1> HIDE DEF o
<1>2. /\ o \o t \in Seq(Parts) /\ Len(o \o t) = Len(o) + Len(t)
      /\ \A k \in 1..Len(o) + Len(t) : (o \o t)[k] = IF k <= Len(o) THEN o[k] ELSE t[k - Len(o)]
  BY <1>1, ConcatProperties
<1>3. Len(t) \in Nat
  OBVIOUS
<1>4. 1 \in 1..Len(o) + Len(t) /\ 1 <= Len(o) /\ Len(o \o t) # 0
  BY <1>1, <1>2, <1>3
<1>5. o \o t # <<>>
  BY <1>2, <1>4, EmptySeq
<1> QED
  BY <1>1, <1>2, <1>4, <1>5 DEF Starts, o

-----------------------------------------------------------------------------
(* One parameter after the other: what projectKey finds in the header.     *)
Parameter == [name : ParamNames, value : Values]

Comma(i) == IF i = 1 THEN <<>> ELSE <<",">>

(* The name of the key's parameter is not in its text. *)
Silent(p) == FirstAt(Text(p), "sentry_key=") = 0

LEMMA CommaIs ==
  ASSUME NEW i
  PROVE  Comma(i) \in Seq(Parts) /\ FirstAt(Comma(i), "sentry_key=") = 0
<1>1. CASE i = 1
  BY <1>1, EmptyIsNot DEF Comma
<1>2. CASE i # 1
  <2>1. FirstAt(<<",">>, "sentry_key=") = 0
    BY PartsAre, OneIsNot
  <2> QED
    BY <1>2, <2>1, PartsAre, OnePart DEF Comma
<1> QED
  BY <1>1, <1>2

LEMMA SequenceOfOthers ==
  ASSUME NEW S, NEW T, S \subseteq T, NEW x, x \notin S, NEW s \in Seq(S)
  PROVE  s \in Seq(T) /\ \A k \in 1..Len(s) : s[k] # x
<1>1. \A k \in 1..Len(s) : s[k] \in S
  OBVIOUS
<1>2. Len(s) \in Nat /\ s = [k \in 1..Len(s) |-> s[k]]
  OBVIOUS
<1>3. \A k \in 1..Len(s) : s[k] \in T
  BY <1>1
<1> QED
  BY <1>1, <1>2, <1>3

LEMMA WordsAreParts ==
  ASSUME NEW s \in Seq(Words)
  PROVE  s \in Seq(Parts) /\ FirstAt(s, ",") = 0
<1> DEFINE comma == ","
<1>1. Words \subseteq Parts /\ comma \notin Words
  BY HeaderAssumption DEF HeaderAssumption, Parts
<1> HIDE DEF comma
<1>2. s \in Seq(Parts) /\ \A k \in 1..Len(s) : s[k] # comma
  BY <1>1, SequenceOfOthers
<1>3. FirstAt(s, comma) = 0
  BY <1>2, FirstAtNone
<1> QED
  BY <1>2, <1>3 DEF comma

LEMMA TextIs ==
  ASSUME NEW p \in Parameter
  PROVE  /\ p.name \in Seq(Parts)
         /\ p.value \in Seq(Parts) /\ FirstAt(p.value, ",") = 0
         /\ Text(p) \in Seq(Parts) /\ Text(p) = p.name \o p.value
<1>1. p.name \in Seq(Words) /\ p.value \in Seq(Words)
  BY HeaderAssumption DEF HeaderAssumption, Parameter
<1>2. p.name \in Seq(Parts) /\ p.value \in Seq(Parts) /\ FirstAt(p.value, ",") = 0
  BY <1>1, WordsAreParts
<1> QED
  BY <1>2, ConcatProperties DEF Text

LEMMA AssociateParts == \A s, t, u \in Seq(Parts) : (s \o t) \o u = s \o (t \o u)
<1> SUFFICES ASSUME NEW s \in Seq(Parts), NEW t \in Seq(Parts), NEW u \in Seq(Parts)
             PROVE  (s \o t) \o u = s \o (t \o u)
  OBVIOUS
<1> QED
  OBVIOUS

Segment(i, p) == Comma(i) \o Text(p)

LEMMA SegmentIs ==
  ASSUME NEW i, NEW p \in Parameter
  PROVE  /\ Segment(i, p) \in Seq(Parts)
         /\ i # 1 => Starts(Segment(i, p), ",")
         /\ Silent(p) => FirstAt(Segment(i, p), "sentry_key=") = 0
         /\ IsKey(p) => \A s \in Seq(Parts) :
              s \o Segment(i, p) = ((s \o Comma(i)) \o <<"sentry_key=">>) \o p.value
<1> DEFINE n == p.name
           v == p.value
           c == Comma(i)
           t == Text(p)
<1>1. n \in Seq(Parts) /\ v \in Seq(Parts) /\ c \in Seq(Parts) /\ t \in Seq(Parts) /\ t = n \o v
  BY TextIs, CommaIs
<1>2. Segment(i, p) = c \o t
  BY DEF Segment
<1>3. FirstAt(c, "sentry_key=") = 0
  BY CommaIs
<1>4. IsKey(p) => n = <<"sentry_key=">>
  BY DEF IsKey
<1>5. i # 1 => c = <<",">>
  BY DEF Comma
<1>6. Silent(p) => FirstAt(t, "sentry_key=") = 0
  BY DEF Silent
<1> HIDE DEF n, v, c, t
<1>7. c \o t \in Seq(Parts)
  BY <1>1, ConcatProperties
<1>8. Silent(p) => FirstAt(c \o t, "sentry_key=") = 0
  BY <1>1, <1>3, <1>6, NoneOfConcat
<1>9. ASSUME NEW s \in Seq(Parts)
      PROVE  s \o (c \o t) = ((s \o c) \o n) \o v
  <2> DEFINE d == s \o c
  <2>1. d \in Seq(Parts) /\ d \o t = s \o (c \o t)
    BY <1>1, ConcatProperties, AssociateParts
  <2> HIDE DEF d
  <2>2. n \in Seq(Parts) /\ v \in Seq(Parts) /\ t = n \o v
    BY <1>1
  <2>3. (d \o n) \o v = d \o (n \o v)
    BY <2>1, <2>2, AssociateParts
  <2> QED
    BY <2>1, <2>2, <2>3 DEF d
<1>10. i # 1 => Starts(c \o t, ",")
  BY <1>1, <1>5, PartsAre, OneStarts
<1>11. IsKey(p) => \A s \in Seq(Parts) : s \o (c \o t) = ((s \o c) \o <<"sentry_key=">>) \o v
  BY <1>4, <1>9
<1> QED
  BY <1>2, <1>7, <1>8, <1>10, <1>11 DEF n, v, c, t

LEMMA ParamsAre ==
  ASSUME NEW ps \in Params
  PROVE  Len(ps) \in Nat /\ DOMAIN ps = 1..Len(ps) /\ \A i \in 1..Len(ps) : ps[i] \in Parameter
<1>1. PICK n \in 0..MaxParams : ps \in [1..n -> Parameter]
  BY DEF Params, UpTo, Parameter
<1>2. n \in Nat
  BY IngestAssumption DEF IngestAssumption
<1>3. Len(ps) = n
  BY <1>1, <1>2
<1> HIDE DEF Parameter
<1> QED
  BY <1>1, <1>2, <1>3

(* The header up to each of its parameters. *)
LEMMA HeaderGrows ==
  ASSUME NEW scheme \in Parts, NEW ps \in Params
  PROVE  \E H : /\ H[0] = <<scheme>> /\ H[Len(ps)] = Header(scheme, ps)
                /\ \A i \in 1..Len(ps) : H[i] \in Seq(Parts) /\ H[i] = H[i - 1] \o Segment(i, ps[i])
<1> DEFINE n == Len(ps)
           ss == [i \in DOMAIN ps |-> Segment(i, ps[i])]
           o == <<scheme>>
<1>1. n \in Nat /\ DOMAIN ps = 1..n /\ \A i \in 1..n : ps[i] \in Parameter
  BY ParamsAre
<1>2. \A i \in 1..n : Segment(i, ps[i]) \in Seq(Parts)
  BY <1>1, SegmentIs
<1>3. Header(scheme, ps) = o \o FlattenSeq(ss)
  BY Zenon DEF Header, Segment, Comma
<1>4. ss = [i \in 1..n |-> Segment(i, ps[i])]
  BY <1>1, Zenon
<1>5. o \in Seq(Parts)
  BY OnePart
<1> HIDE DEF n, o, ss
<1>6. ss \in [1..n -> Seq(Parts)] /\ \A i \in 1..n : ss[i] = Segment(i, ps[i])
  BY <1>2, <1>4
<1>7. CASE n = 0
  <2>1. ss = <<>> /\ Len(ss) = 0
    BY <1>6, <1>7
  <2>2. FlattenSeq(ss) = <<>>
    BY <2>1, FlattenIsJoined
  <2>3. Header(scheme, ps) = o
    BY <1>3, <1>5, <2>2, ConcatEmptySeq
  <2> DEFINE H == [i \in {0} |-> o]
  <2>4. H[0] = o /\ H[n] = Header(scheme, ps) /\ \A i \in 1..n : FALSE
    BY <1>7, <2>3
  <2> HIDE DEF H
  <2> QED
    BY <2>4 DEF o, n
<1>8. CASE n # 0
  <2>1. PICK f : /\ f[1] = ss[1] /\ FlattenSeq(ss) = f[n]
                 /\ \A i \in 1..n : i # 1 => f[i] = f[i - 1] \o ss[i]
                 /\ \A i \in 1..n : f[i] \in Seq(Parts)
    <3>1. ss \in Seq(Seq(Parts)) /\ Len(ss) = n
      BY <1>1, <1>6
    <3>2. PICK f : /\ f[1] = ss[1] /\ FlattenSeq(ss) = f[Len(ss)]
                   /\ \A i \in 1..Len(ss) : i # 1 => f[i] = f[i - 1] \o ss[i]
                   /\ \A i \in 1..Len(ss) : f[i] \in Seq(Parts)
      BY <1>8, <3>1, FlattenIs
    <3> QED
      BY <3>1, <3>2
  <2> DEFINE H == [i \in 0..n |-> IF i = 0 THEN o ELSE o \o f[i]]
  <2>2. \A m \in Nat : m \in 1..n => f[m] \in Seq(Parts)
    BY <2>1
  <2>3. H[0] = o
    BY <1>1
  <2>4. n \in 1..n /\ H[n] = o \o f[n]
    BY <1>1, <1>8
  <2>5. ASSUME NEW i \in 1..n
        PROVE  H[i] \in Seq(Parts) /\ H[i] = H[i - 1] \o Segment(i, ps[i])
    <3>1. i \in Nat /\ i \in 0..n /\ i # 0
      BY <1>1
    <3>2. H[i] = o \o f[i] /\ f[i] \in Seq(Parts)
      BY <2>2, <3>1
    <3>3. H[i] \in Seq(Parts)
      BY <1>5, <3>2, ConcatProperties
    <3>4. CASE i = 1
      <4>1. H[i - 1] = o /\ f[i] = Segment(i, ps[i])
        BY <1>1, <1>6, <2>1, <3>4
      <4> QED
        BY <3>2, <3>3, <4>1
    <3>5. CASE i # 1
      <4>1. i - 1 \in Nat /\ i - 1 \in 0..n /\ i - 1 # 0 /\ i - 1 \in 1..n
        BY <1>1, <3>5
      <4>2. H[i - 1] = o \o f[i - 1] /\ f[i - 1] \in Seq(Parts)
        BY <2>2, <4>1
      <4>3. f[i] = f[i - 1] \o Segment(i, ps[i])
        BY <1>6, <2>1, <3>5
      <4>4. (o \o f[i - 1]) \o Segment(i, ps[i]) = o \o (f[i - 1] \o Segment(i, ps[i]))
        BY <1>2, <1>5, <4>2, AssociateParts, Zenon
      <4> HIDE DEF H
      <4> QED
        BY <3>2, <3>3, <4>2, <4>3, <4>4
    <3> QED
      BY <3>4, <3>5
  <2>6. H[n] = Header(scheme, ps)
    BY <1>3, <2>1, <2>4
  <2> HIDE DEF H
  <2> QED
    BY <2>3, <2>5, <2>6 DEF o, n
<1> QED
  BY <1>7, <1>8

(* The first parameter with the name of the key. *)
FirstNamed(ps) == SelectInSeq(ps, IsKey)

LEMMA FirstNamedIs ==
  ASSUME NEW ps \in Params
  PROVE  /\ FirstNamed(ps) \in 0..Len(ps)
         /\ FirstNamed(ps) # 0 => IsKey(ps[FirstNamed(ps)])
         /\ \A i \in 1..Len(ps) : IsKey(ps[i]) => FirstNamed(ps) # 0 /\ FirstNamed(ps) <= i
<1> DEFINE I == {i \in 1..Len(ps) : IsKey(ps[i])}
           m == FirstNamed(ps)
<1>1. m = IF I # {} THEN Min(I) ELSE 0
  BY DEF FirstNamed, SelectInSeq
<1>2. Len(ps) \in Nat /\ I \in SUBSET Nat
  BY ParamsAre
<1>3. I # {} => Min(I) \in I /\ \A k \in I : Min(I) <= k
  <2> HIDE DEF I
  <2> QED
    BY <1>2, MinIs
<1>4. CASE I = {}
  BY <1>1, <1>2, <1>4
<1>5. CASE I # {}
  <2>1. m \in I /\ \A k \in I : m <= k
    BY <1>1, <1>3, <1>5
  <2>2. m \in 1..Len(ps) /\ IsKey(ps[m])
    BY <2>1
  <2>3. \A i \in 1..Len(ps) : IsKey(ps[i]) => m <= i
    BY <2>1
  <2> HIDE DEF m, I
  <2>4. m \in 0..Len(ps) /\ m # 0
    BY <1>2, <2>2
  <2> QED
    BY <2>2, <2>3, <2>4 DEF m
<1> QED
  BY <1>4, <1>5

Opens(s, scheme) == s \in Seq(Parts) /\ Len(s) # 0 /\ Head(s) = scheme

Has(s) == FirstAt(s, "sentry_key=") # 0

Sentry(scheme) == scheme = "Sentry "

LEMMA OneOpens ==
  ASSUME NEW scheme \in Parts
  PROVE  Opens(<<scheme>>, scheme)
BY OnePart DEF Opens

LEMMA OpensStays ==
  ASSUME NEW s, NEW scheme, Opens(s, scheme), NEW t \in Seq(Parts)
  PROVE  Opens(s \o t, scheme)
<1>1. s \in Seq(Parts) /\ Len(s) # 0 /\ Head(s) = scheme
  BY DEF Opens
<1>2. Head(s \o t) = scheme
  BY <1>1, HeadOfConcat
<1>3. s \o t \in Seq(Parts) /\ Len(s \o t) # 0
  BY <1>1, ConcatProperties
<1> QED
  BY <1>2, <1>3 DEF Opens

(* One more parameter. *)
LEMMA OneMore ==
  ASSUME NEW s, NEW scheme, Opens(s, scheme), Sentry(scheme), NEW i, NEW p \in Parameter
  PROVE  /\ ~Has(s) /\ Silent(p) => ~Has(s \o Segment(i, p))
         /\ ~Has(s) /\ IsKey(p) => Has(s \o Segment(i, p)) /\ ProjectKey(s \o Segment(i, p)) = p.value
         /\ Has(s) /\ i # 1 => Has(s \o Segment(i, p)) /\ ProjectKey(s \o Segment(i, p)) = ProjectKey(s)
<1>1. s \in Seq(Parts) /\ Len(s) # 0 /\ Head(s) = "Sentry "
  BY DEF Opens, Sentry
<1>2. Segment(i, p) \in Seq(Parts)
  BY SegmentIs
<1>3. ASSUME ~Has(s), Silent(p)
      PROVE  ~Has(s \o Segment(i, p))
  <2>1. FirstAt(s, "sentry_key=") = 0 /\ FirstAt(Segment(i, p), "sentry_key=") = 0
    BY <1>3, SegmentIs, Zenon DEF Has
  <2>2. FirstAt(s \o Segment(i, p), "sentry_key=") = 0
    BY <1>1, <1>2, <2>1, NoneOfConcat, Zenon
  <2> QED
    BY <2>2, Zenon DEF Has
<1>4. ASSUME ~Has(s), IsKey(p)
      PROVE  Has(s \o Segment(i, p)) /\ ProjectKey(s \o Segment(i, p)) = p.value
  <2> DEFINE t == s \o Comma(i)
  <2>1. Comma(i) \in Seq(Parts) /\ FirstAt(Comma(i), "sentry_key=") = 0
    BY CommaIs
  <2>2. Opens(t, scheme)
    BY <2>1, OpensStays
  <2>3. FirstAt(t, "sentry_key=") = 0
    BY <1>1, <1>4, <2>1, NoneOfConcat DEF Has
  <2>4. s \o Segment(i, p) = (t \o <<"sentry_key=">>) \o p.value
    BY <1>1, <1>4, SegmentIs
  <2>5. p.value \in Seq(Parts) /\ FirstAt(p.value, ",") = 0
    BY TextIs
  <2> HIDE DEF t
  <2>6. t \in Seq(Parts) /\ Len(t) # 0 /\ Head(t) = "Sentry "
    BY <2>2 DEF Opens, Sentry
  <2> DEFINE h == (t \o <<"sentry_key=">>) \o p.value
  <2>7. FirstAt(h, "sentry_key=") # 0 /\ ProjectKey(h) = p.value
    BY <2>3, <2>5, <2>6, ProjectKeyFound
  <2> HIDE DEF h
  <2> QED
    BY <1>4, <2>4, <2>7, Zenon DEF Has, h
<1>5. ASSUME Has(s), i # 1
      PROVE  Has(s \o Segment(i, p)) /\ ProjectKey(s \o Segment(i, p)) = ProjectKey(s)
  <2>1. Starts(Segment(i, p), ",")
    BY <1>5, SegmentIs
  <2> QED
    BY <1>1, <1>2, <1>5, <2>1, ProjectKeyStays DEF Has
<1> QED
  BY <1>3, <1>4, <1>5

(* All of them. *)
LEMMA KeyOfHeader ==
  ASSUME NEW scheme \in Parts, ~Has(<<scheme>>), NEW ps \in Params, Clear(ps)
  PROVE  LET h == Header(scheme, ps)
             m == FirstNamed(ps)
         IN /\ Opens(h, scheme)
            /\ Sentry(scheme) => IF m = 0 THEN ~Has(h) ELSE Has(h) /\ ProjectKey(h) = ps[m].value
<1> DEFINE m == FirstNamed(ps)
           n == Len(ps)
<1>2. n \in Nat /\ \A i \in 1..n : ps[i] \in Parameter
  BY ParamsAre
<1>3. PICK H : /\ H[0] = <<scheme>> /\ H[n] = Header(scheme, ps)
               /\ \A i \in 1..n : H[i] \in Seq(Parts) /\ H[i] = H[i - 1] \o Segment(i, ps[i])
  BY HeaderGrows
<1>4. /\ m \in 0..n /\ (m # 0 => IsKey(ps[m]))
      /\ \A i \in 1..n : IsKey(ps[i]) => m # 0 /\ m <= i
  BY FirstNamedIs
<1>5. ASSUME NEW j \in 1..n, m = 0 \/ j < m
      PROVE  Silent(ps[j])
  <2>1. \A l \in 1..j : ~IsKey(ps[l])
    BY <1>2, <1>4, <1>5
  <2>2. "sentry_key=" \notin Range(Text(ps[j]))
    BY <1>2, <2>1, ParamsAre DEF Clear
  <2>3. Text(ps[j]) \in Seq(Parts)
    BY <1>2, TextIs
  <2> HIDE DEF m
  <2> QED
    BY <2>2, <2>3, FirstAtIs DEF Silent, Range
<1>6. Opens(H[0], scheme) /\ ~Has(H[0])
  BY <1>3, OneOpens
<1> DEFINE Inv(j) == /\ Opens(H[j], scheme)
                     /\ Sentry(scheme) =>
                          /\ m = 0 \/ j < m => ~Has(H[j])
                          /\ m # 0 /\ m <= j => Has(H[j]) /\ ProjectKey(H[j]) = ps[m].value
           T == {j \in Nat : j <= n => Inv(j)}
<1>7. ASSUME NEW j \in Nat, j <= n, j # 0, Inv(j - 1)
      PROVE  Inv(j)
  <2> DEFINE s == H[j - 1]
             p == ps[j]
  <2>1. j \in 1..n
    BY <1>2, <1>7
  <2>2. H[j] = s \o Segment(j, p) /\ p \in Parameter
    BY <1>2, <1>3, <2>1
  <2>3. Opens(H[j], scheme)
    <3>1. Segment(j, p) \in Seq(Parts) /\ Opens(s, scheme)
      BY <1>7, <2>2, SegmentIs
    <3> HIDE DEF s, p
    <3> QED
      BY <2>2, <3>1, OpensStays
  <2>4. CASE Sentry(scheme)
    <3>1. Opens(s, scheme)
      BY <1>7
    <3>2. /\ ~Has(s) /\ Silent(p) => ~Has(H[j])
          /\ ~Has(s) /\ IsKey(p) => Has(H[j]) /\ ProjectKey(H[j]) = p.value
          /\ Has(s) /\ j # 1 => Has(H[j]) /\ ProjectKey(H[j]) = ProjectKey(s)
      BY <2>2, <2>4, <3>1, OneMore
    <3>3. IsKey(p) => m # 0 /\ m <= j
      BY <1>4, <2>1
    <3>4. /\ m = 0 \/ j - 1 < m => ~Has(s)
          /\ m # 0 /\ m <= j - 1 => Has(s) /\ ProjectKey(s) = ps[m].value
      BY <1>7, <2>4, Zenon
    <3> HIDE DEF s, m
    <3>5. m \in Nat
      BY <1>2, <1>4
    <3>6. CASE m = 0 \/ j < m
      <4>1. Silent(p) /\ ~(m # 0 /\ m <= j) /\ (m = 0 \/ j - 1 < m)
        BY <1>5, <2>1, <3>5, <3>6
      <4> QED
        BY <2>3, <3>2, <3>4, <4>1
    <3>7. CASE m # 0 /\ m = j
      <4>1. IsKey(p) /\ ~(m = 0 \/ j < m) /\ j - 1 < m
        BY <1>4, <3>7
      <4> QED
        BY <2>3, <3>2, <3>4, <3>7, <4>1
    <3>8. CASE m # 0 /\ m < j
      <4>1. m <= j - 1 /\ j # 1 /\ ~(m = 0 \/ j < m)
        BY <3>5, <3>8
      <4> QED
        BY <2>3, <3>2, <3>4, <3>8, <4>1
    <3> QED
      BY <3>5, <3>6, <3>7, <3>8
  <2> QED
    BY <2>3, <2>4
<1>8. Inv(0)
  <2> HIDE DEF m
  <2>1. ~(m # 0 /\ m <= 0)
    BY <1>4
  <2> QED
    BY <1>6, <2>1
<1> HIDE DEF Inv, m
<1>9. Nat \subseteq T
  <2>1. ASSUME NEW j \in Nat, \A k \in Nat : k < j => k \in T
        PROVE  j \in T
    <3>1. CASE j = 0
      BY <1>8, <3>1
    <3>2. CASE j # 0 /\ j <= n
      <4>1. j - 1 \in Nat /\ j - 1 < j /\ j - 1 <= n
        BY <1>2, <3>2
      <4>2. Inv(j - 1)
        BY <2>1, <4>1
      <4> QED
        BY <1>7, <3>2, <4>2
    <3> QED
      BY <3>1, <3>2
  <2> HIDE DEF T
  <2> QED
    BY <2>1, Induction, Zenon
<1>10. Inv(n)
  BY <1>2, <1>9
<1>11. ASSUME m # 0
       PROVE  m <= n
  BY <1>4
<1>12. /\ Opens(H[n], scheme)
       /\ Sentry(scheme) => IF m = 0 THEN ~Has(H[n]) ELSE Has(H[n]) /\ ProjectKey(H[n]) = ps[m].value
  BY <1>10, <1>11, Zenon DEF Inv
<1> QED
  BY <1>3, <1>12, Zenon DEF m

(* Where no name or value before it has that name in it, the key is found  *)
(* wherever its parameter stands, and the first of two of them counts.     *)
LEMMA KeyIsMeant ==
  ASSUME NEW scheme \in {"Sentry ", "Bearer "}, NEW ps \in Params, Clear(ps)
  PROVE  ProjectKey(Header(scheme, ps)) = Meant(scheme, ps)
<1> DEFINE m == FirstNamed(ps)
           h == Header(scheme, ps)
<1>1. scheme \in Parts
  BY PartsAre
<1>2. ~Has(<<scheme>>)
  <2>1. scheme # "sentry_key="
    OBVIOUS
  <2> QED
    BY <1>1, <2>1, OneIsNot DEF Has
<1>3. /\ Opens(h, scheme)
      /\ Sentry(scheme) => IF m = 0 THEN ~Has(h) ELSE Has(h) /\ ProjectKey(h) = ps[m].value
  BY <1>1, <1>2, KeyOfHeader
<1>4. Meant(scheme, ps) = IF ~Sentry(scheme) \/ m = 0 THEN <<>> ELSE ps[m].value
  BY Zenon DEF Meant, FirstNamed, Sentry
<1> HIDE DEF m, h
<1>5. ~Sentry(scheme) \/ ~Has(h) => ProjectKey(h) = <<>>
  BY <1>3, ProjectKeyIs, Zenon DEF Has, Sentry, Opens
<1> QED
  BY <1>3, <1>4, <1>5, Zenon DEF h

-----------------------------------------------------------------------------
(* ServeHTTP: the key, the project that is found with it and the event.    *)
Routing ==
  /\ pc \in {"decode", "resolve", "serve"} => key = Null
  /\ clear /\ pc = "unknown" => \A k \in Keys : sent = <<k>> => doc.projects[k] = Absent
  /\ clear /\ key # Null => sent = <<key>>
  /\ key # Null => key \in Keys /\ doc.projects[key] # Absent
  /\ event # Null => event = NameOf(key)

LEMMA ConfiguredName ==
  ASSUME NEW k, NEW p
  PROVE  Configured(k, p).name = IF p = Null \/ p.rename = "" THEN k ELSE p.rename
BY Zenon DEF Configured

LEMMA NameIsConfigured ==
  ASSUME IInv, NEW k \in Keys, doc.projects[k] # Absent, left = {}
  PROVE  projects[k].name = NameOf(k)
<1>1. projects[k] = Configured(k, doc.projects[k])
  BY DEF IInv, Resolving
<1> DEFINE p == doc.projects[k]
<1>2. Configured(k, p).name = IF p = Null \/ p.rename = "" THEN k ELSE p.rename
  BY ConfiguredName
<1> QED
  BY <1>1, <1>2, Zenon DEF NameOf

(* What Load leaves of a project is there. *)
LEMMA ProjectIsThere ==
  ASSUME IInv, NEW k \in Keys, doc.projects[k] # Absent, left = {}
  PROVE  projects[k] # Absent
<1> DEFINE p == doc.projects[k]
           c == projects[k]
<1>1. c = Configured(k, p)
  BY DEF IInv, Resolving
<1>2. c.filters \in UpTo(Nodes \cup {Null}, MaxEntries)
  BY FiltersAreResolved DEF Filters
<1>3. p = Null \/ p \in Written
  BY DEF IInv, TypeInv, Documents
<1>4. c.name \in Keys
  <2>1. p # Null => p.rename \in Keys \cup {""}
    BY <1>3 DEF Written
  <2>2. c.name = IF p = Null \/ p.rename = "" THEN k ELSE p.rename
    <3>1. Configured(k, p).name = IF p = Null \/ p.rename = "" THEN k ELSE p.rename
      BY ConfiguredName
    <3> QED
      BY <1>1, <3>1, Zenon
  <2> HIDE DEF p, c
  <2> QED
    BY <2>1, <2>2
<1>5. c = [name |-> c.name, filters |-> c.filters]
  BY <1>1 DEF Configured
<1> HIDE DEF c
<1>6. c \in [name : Keys, filters : UpTo(Nodes \cup {Null}, MaxEntries)]
  BY <1>2, <1>4, <1>5
<1> QED
  BY <1>6, AbsentAssumption DEF AbsentAssumption, c

LEMMA AuthorizeRouting ==
  ASSUME IInv, Routing, NEW scheme \in {"Sentry ", "Bearer "}, NEW ps \in Params, Authorize(scheme, ps)
  PROVE  Routing'
<1> DEFINE h == ProjectKey(Header(scheme, ps))
           found == {k \in Keys : h = <<k>> /\ projects[k] # Absent}
<1>1. /\ pc = "serve" /\ UNCHANGED <<doc, projects, event>>
      /\ sent' = Meant(scheme, ps) /\ clear' = Clear(ps)
      /\ IF found = {} THEN pc' = "unknown" /\ UNCHANGED key ELSE pc' = "read" /\ key' \in found
  BY DEF Authorize, loading
<1>2. clear' => sent' = h
  BY <1>1, KeyIsMeant
<1>3. event = Null /\ key = Null /\ left = {}
  BY <1>1 DEF IInv, Asking, Resolving, Routing
<1>4. \A k \in Keys : projects[k] = Absent <=> doc.projects[k] = Absent
  BY <1>3, ProjectIsThere DEF IInv, Resolving
<1> HIDE DEF h
<1>5. CASE found = {}
  BY <1>1, <1>2, <1>3, <1>4, <1>5 DEF Routing
<1>6. CASE found # {}
  <2>1. pc' = "read" /\ key' \in Keys /\ h = <<key'>> /\ projects[key'] # Absent
    BY <1>1, <1>6
  <2> QED
    BY <1>1, <1>2, <1>3, <1>4, <2>1 DEF Routing
<1> QED
  BY <1>5, <1>6

LEMMA DecodeEventRouting ==
  ASSUME IInv, Routing, DecodeEvent
  PROVE  Routing'
<1>1. /\ pc = "read" /\ pc' = "filter" /\ UNCHANGED <<doc, sent, clear, key>>
      /\ event' = projects[key].name
  BY DEF DecodeEvent
<1>2. key \in Keys /\ projects[key] # Absent /\ left = {}
  BY <1>1 DEF IInv, Asking, Resolving
<1>3. doc.projects[key] # Absent
  BY <1>2 DEF IInv, Resolving
<1>4. event' = NameOf(key)'
  BY <1>1, <1>2, <1>3, NameIsConfigured DEF NameOf
<1> QED
  BY <1>1, <1>4 DEF Routing

(* The other steps leave the request alone. *)
LEMMA OtherRouting ==
  ASSUME Routing, UNCHANGED <<doc, sent, clear, key, event>>,
         pc' \in {"decode", "resolve", "serve"} => pc \in {"decode", "resolve", "serve"},
         pc' = "unknown" => pc = "unknown"
  PROVE  Routing'
BY DEF Routing, NameOf

(* A request is answered for the project whose key the client sent, from   *)
(* whatever place in the header, and no configured project is unknown: for *)
(* all documents and all headers in which nothing before the key has the   *)
(* name of its parameter in it.                                            *)
THEOREM RoutesAreSent == Spec => []RoutedAsSent
<1>1. Init => Routing
  BY DEF Init, Routing
<1>2. IInv /\ Routing /\ [Next]_vars => Routing'
  <2> SUFFICES ASSUME IInv, Routing, [Next]_vars
               PROVE  Routing'
    OBVIOUS
  <2>1. ASSUME NEW n \in Nodes, DecodeFilter(n)
        PROVE  Routing'
    <3>1. pc = "decode" /\ UNCHANGED doc /\ UNCHANGED serving /\ pc' \in {"decode", "failed"}
      BY <2>1 DEF DecodeFilter, Fail
    <3> QED
      BY <3>1, OtherRouting DEF serving
  <2>2. CASE Decoded \/ Loaded
    BY <2>2, OtherRouting DEF Decoded, Loaded, serving
  <2>3. ASSUME NEW k \in Keys, Resolve(k)
        PROVE  Routing'
    BY <2>3, OtherRouting DEF Resolve, Fail, serving
  <2>4. CASE WrongMethod \/ BadBody \/ NoEvent \/ AskOther \/ Batch
    BY <2>4, OtherRouting DEF WrongMethod, BadBody, NoEvent, AskOther, Batch, Answer, serving
  <2>5. CASE AskAnd
    BY <2>5, OtherRouting DEF AskAnd
  <2>6. CASE UNCHANGED vars
    BY <2>6, OtherRouting DEF vars, serving
  <2> QED
    BY <2>1, <2>2, <2>3, <2>4, <2>5, <2>6, AuthorizeRouting, DecodeEventRouting DEF Next, Done
<1>3. Routing => RoutedAsSent
  BY DEF Routing, RoutedAsSent
<1> QED
  BY <1>1, <1>2, <1>3, Invariance, PTL DEF Spec

=============================================================================
