------------------------------- MODULE Ingest -------------------------------
(***************************************************************************)
(* bugpack/config, bugpack/envelope/filters and bugpack/ingester: from the *)
(* configuration file to the projects and their filters, and from there to *)
(* the way of one request through ServeHTTP.                               *)
(*                                                                         *)
(* One behaviour loads one document and serves one request: requests share *)
(* nothing but the configuration, which none of them writes.               *)
(*                                                                         *)
(* What is written where a filter is expected, and is not a reference by   *)
(* name, is one of Nodes.  A load that returns an error and one that       *)
(* panics are not told apart: neither starts a server.  A text is the      *)
(* sequence of its parts.                                                  *)
(***************************************************************************)
EXTENDS Integers, Sequences, SequencesExt

CONSTANTS
  Keys,         \* keys of projects
  Names,        \* names of filters
  Nodes,        \* the filters written in the document
  Kind,         \* their type: "and", "equals", "contains", or "invalid" if it
                \* is none of these; "other": the node is not a mapping
  Subs,         \* the filters in an "and", in order
  Null,         \* null in the document, nil in the configuration
  Absent,       \* a key that is not in a mapping
  MaxEntries,   \* bound on the filters of all projects
  Words,        \* what names and values of parameters are made of
  ParamNames, Values,
  MaxParams     \* bound on the parameters of the header

(* The name of a filter as it is written: a plain scalar, or one that      *)
(* StringNode.String gives back with more than its value, like its quotes. *)
References == [name : Names, style : {"plain", "marked"}]

Entries == Nodes \cup References \cup {Null}

UpTo(S, n) == UNION {[1..k -> S] : k \in 0..n}

ASSUME IngestAssumption ==
  /\ Kind \in [Nodes -> {"and", "equals", "contains", "invalid", "other"}]
  /\ Subs \in [Nodes -> Seq(Nodes \cup {Null})]
  /\ Nodes \cap References = {} /\ Null \notin Nodes \cup References
  /\ Absent \notin Nodes \cup {Null}
  /\ MaxEntries \in Nat /\ MaxParams \in Nat

(* There is a comma after a parameter, and none in it. *)
ASSUME HeaderAssumption ==
  /\ "sentry_key=" \in Words /\ "," \notin Words
  /\ ParamNames \subseteq Seq(Words) /\ Values \subseteq Seq(Words)

(* A project that is there is not absent. *)
ASSUME AbsentAssumption == Absent \notin [name : Keys, filters : UpTo(Nodes \cup {Null}, MaxEntries)]

VARIABLES
  doc,          \* the document: projects and named filters
  pc,           \* where the process, then the request is
  undecoded,    \* the filters that are still to be decoded
  left,         \* the projects that the loop in unmarshal has not seen
  projects,     \* Config.Projects
  sent,         \* the key that the client sent
  clear,        \* nothing before it has the name of its parameter in it
  key,          \* the key of the project that was found
  event,        \* the event: its project, Null before it is decoded
  asked         \* the filters that are still to be asked, in order

loading == <<undecoded, left, projects>>
serving == <<sent, clear, key, event, asked>>
vars == <<doc, pc, loading, serving>>

(* A project as it is written; "" stands for a rename that is left out. *)
Written == [rename : Keys \cup {""}, filters : UpTo(Entries, MaxEntries)]

Size(p) == IF p \in {Null, Absent} THEN 0 ELSE Len(p.filters)

Documents ==
  {d \in [projects : [Keys -> Written \cup {Null, Absent}],
          filters : [Names -> Nodes \cup {Null, Absent}]] :
     \A k, l \in Keys : k # l => Size(d.projects[k]) + Size(d.projects[l]) <= MaxEntries}

FiltersOf(p) == IF p \in {Null, Absent} THEN {} ELSE Range(p.filters)

(* The filters written at the top of the document, or in a project. *)
Top(d) == Nodes \cap (Range(d.filters) \cup UNION {FiltersOf(d.projects[k]) : k \in Keys})

(* configure *)
Init ==
  /\ doc \in Documents
  /\ pc = "decode"
  /\ undecoded = Top(doc)
  /\ left = {k \in Keys : doc.projects[k] # Absent}
  /\ projects = doc.projects
  /\ sent = <<>> /\ clear = TRUE /\ key = Null /\ event = Null /\ asked = <<>>

-----------------------------------------------------------------------------
(* Load.                                                                   *)

Fail == pc' = "failed" /\ UNCHANGED <<doc, loading, serving>>

(* Of a filter: it is not a mapping, its type is unknown, or it is an      *)
(* "and" of which a filter is null, where s.impl panics.                   *)
Broken(n) == Kind[n] \in {"invalid", "other"} \/ (Kind[n] = "and" /\ Null \in Range(Subs[n]))

(* filter.UnmarshalYAML, which decodes the filters of an "and" likewise;   *)
(* in a project it is pfilter.UnmarshalYAML that looks at the node first.  *)
DecodeFilter(n) ==
  /\ pc = "decode"
  /\ n \in undecoded
  /\ IF Broken(n) THEN Fail
     ELSE /\ undecoded' = (undecoded \ {n}) \cup (IF Kind[n] = "and" THEN Range(Subs[n]) ELSE {})
          /\ UNCHANGED <<doc, pc, left, projects, serving>>

Decoded ==
  /\ pc = "decode"
  /\ undecoded = {}
  /\ pc' = "resolve"
  /\ UNCHANGED <<doc, loading, serving>>

(* Faulty: a name without a filter is taken for one that is null. *)
UnresolvedNever(f) == f = Null

(* lazyRef: the value of the scalar only if it is plain. *)
String(r) == IF r.style = "plain" THEN <<r.name>> ELSE <<r.style, r.name>>

(* c.Filters[text] *)
FilterNamed(text) ==
  IF \E n \in Names : text = <<n>> THEN doc.filters[CHOOSE n \in Names : text = <<n>>] ELSE Absent

(* pf is nil, which panics, or its name is not in the mapping (or there is *)
(* no mapping).                                                            *)
Unresolved(f) == f = Null \/ (f \in References /\ FilterNamed(String(f)) = Absent)

(* What an entry of a project stands for. *)
Resolved(f) == IF f \in References THEN FilterNamed(String(f)) ELSE f

(* A project without a name of its own gets its key, one that is null is   *)
(* a new one, references become the filters they name.                     *)
Configured(k, p) ==
  [name |-> IF p = Null \/ p.rename = "" THEN k ELSE p.rename,
   filters |-> IF p = Null THEN <<>> ELSE [i \in DOMAIN p.filters |-> Resolved(p.filters[i])]]

(* One turn of the loop over the projects, in any order. *)
Resolve(k) ==
  /\ pc = "resolve"
  /\ k \in left
  /\ IF \E f \in FiltersOf(projects[k]) : Unresolved(f) THEN Fail
     ELSE /\ projects' = [projects EXCEPT ![k] = Configured(k, @)]
          /\ left' = left \ {k}
          /\ UNCHANGED <<doc, pc, undecoded, serving>>

Loaded ==
  /\ pc = "resolve"
  /\ left = {}
  /\ pc' = "serve"
  /\ UNCHANGED <<doc, loading, serving>>

-----------------------------------------------------------------------------
(* ServeHTTP.                                                              *)

Answer(a) == pc' = a /\ UNCHANGED <<doc, loading, serving>>

(* The header a client sends: parameters, a comma between them. *)
Params == UpTo([name : ParamNames, value : Values], MaxParams)

Text(p) == p.name \o p.value

Header(scheme, ps) ==
  <<scheme>> \o FlattenSeq([i \in DOMAIN ps |-> (IF i = 1 THEN <<>> ELSE <<",">>) \o Text(ps[i])])

Before(t, s) == LET i == SelectInSeq(s, LAMBDA x : x = t) IN IF i = 0 THEN s ELSE SubSeq(s, 1, i - 1)

(* Faulty: the rest of the header is the key. *)
ProjectKeyToEnd(s) ==
  LET i == SelectInSeq(s, LAMBDA x : x = "sentry_key=")
  IN IF Head(s) # "Sentry " \/ i = 0 THEN <<>> ELSE SubSeq(s, i + 1, Len(s))

(* projectKey: what follows the name wherever it is first found. *)
ProjectKey(s) ==
  LET i == SelectInSeq(s, LAMBDA x : x = "sentry_key=")
  IN IF Head(s) # "Sentry " \/ i = 0 THEN <<>> ELSE Before(",", SubSeq(s, i + 1, Len(s)))

(* A request with another method. *)
WrongMethod == pc = "serve" /\ Answer("refused")

(* What the client means: the value of the first parameter of that name.   *)
IsKey(p) == p.name = <<"sentry_key=">>

Meant(scheme, ps) ==
  LET i == SelectInSeq(ps, IsKey)
  IN IF scheme # "Sentry " \/ i = 0 THEN <<>> ELSE ps[i].value

(* The name is not a part of the name or the value of one before it. *)
Clear(ps) ==
  \A i \in DOMAIN ps : (\A j \in 1..i : ~IsKey(ps[j])) => "sentry_key=" \notin Range(Text(ps[i]))

(* Config.Project(projectKey(auth)); a header without a key finds none.    *)
Authorize(scheme, ps) ==
  LET found == {k \in Keys : ProjectKey(Header(scheme, ps)) = <<k>> /\ projects[k] # Absent}
  IN /\ pc = "serve"
     /\ sent' = Meant(scheme, ps) /\ clear' = Clear(ps)
     /\ IF found = {} THEN pc' = "unknown" /\ UNCHANGED key
        ELSE pc' = "read" /\ key' \in found
     /\ UNCHANGED <<doc, loading, event, asked>>

(* An encoding that is not supported or a body that does not decode. *)
BadBody == pc = "read" /\ Answer("refused")

(* ErrNonEventType *)
NoEvent == pc = "read" /\ Answer("ignored")

(* The event gets the name of its project, and is to pass its filters. *)
DecodeEvent ==
  /\ pc = "read"
  /\ event' = projects[key].name
  /\ asked' = projects[key].filters
  /\ pc' = "filter"
  /\ UNCHANGED <<doc, loading, sent, clear, key>>

(* Faulty: only the first filter of an "and" is asked. *)
ConjunctsFirst(n) == IF Subs[n] = <<>> THEN <<>> ELSE <<Head(Subs[n])>>

(* AND.Filter asks its filters in order. *)
Conjuncts(n) == Subs[n]

IsAnd(f) == f \in Nodes /\ Kind[f] = "and"

AskAnd ==
  /\ pc = "filter"
  /\ asked # <<>>
  /\ IsAnd(Head(asked))
  /\ asked' = Conjuncts(Head(asked)) \o Tail(asked)
  /\ UNCHANGED <<doc, pc, loading, sent, clear, key, event>>

(* A field filter is not implemented, and a nil one is dereferenced; both  *)
(* panic, and net/http closes the connection without an answer.  So far    *)
(* there is no filter that says no.                                        *)
AskOther ==
  /\ pc = "filter"
  /\ asked # <<>>
  /\ ~IsAnd(Head(asked))
  /\ Answer("aborted")

(* h.batcher.Batch(event) *)
Batch ==
  /\ pc = "filter"
  /\ asked = <<>>
  /\ Answer("batched")

Done == pc \in {"failed", "refused", "unknown", "ignored", "aborted", "batched"} /\ UNCHANGED vars

Next ==
  \/ \E n \in Nodes : DecodeFilter(n)
  \/ Decoded \/ Loaded
  \/ \E k \in Keys : Resolve(k)
  \/ WrongMethod
  \/ \E scheme \in {"Sentry ", "Bearer "}, ps \in Params : Authorize(scheme, ps)
  \/ BadBody \/ NoEvent \/ DecodeEvent
  \/ AskAnd \/ AskOther \/ Batch
  \/ Done

Spec == Init /\ [][Next]_vars

-----------------------------------------------------------------------------
(* The reference: a document as a whole, without order.                    *)

(* What is reached from the filters of F: the least set that is closed     *)
(* under the filters of an "and".                                          *)
Inside(F) ==
  LET closed == {S \in SUBSET (Nodes \cup {Null}) :
                   F \subseteq S /\ \A m \in S \ {Null} : Kind[m] = "and" => Range(Subs[m]) \subseteq S}
  IN {n \in Nodes \cup {Null} : \A S \in closed : n \in S}

WellFormed(d) ==
  /\ \A n \in Inside(Top(d)) : n # Null /\ Kind[n] \notin {"invalid", "other"}
  /\ \A k \in Keys : \A f \in FiltersOf(d.projects[k]) :
       f # Null /\ (f \in References => d.filters[f.name] # Absent)

PlainReferences(d) ==
  \A k \in Keys : \A f \in FiltersOf(d.projects[k]) \cap References : f.style = "plain"

NameOf(k) == IF doc.projects[k] = Null \/ doc.projects[k].rename = "" THEN k ELSE doc.projects[k].rename

(* The filter that is meant by an entry. *)
Means(f) == IF f \in References THEN doc.filters[f.name] ELSE f

(* The filters an event of project k has to pass. *)
Required(k) == Inside({Means(f) : f \in FiltersOf(doc.projects[k])})

(* A document is accepted exactly if each filter in it can be decoded, and *)
(* each reference names a filter and is written as a plain scalar,         *)
(* whatever the order in which Go walks its maps.  That one in quotes is   *)
(* refused, although its filter is there, is what the code does.           *)
LoadExact ==
  /\ pc = "failed" => ~(WellFormed(doc) /\ PlainReferences(doc))
  /\ pc = "serve" => WellFormed(doc) /\ PlainReferences(doc)

(* Where nothing before it in the header has the name of its parameter in  *)
(* it, the key is found wherever it stands, and no project that is         *)
(* configured is reported missing, be it an empty one.  An event is filed  *)
(* under the name of the project whose key was found.  (A parameter that   *)
(* has that name in it may itself be taken for the key.)                   *)
RoutedAsSent ==
  /\ clear => /\ pc = "unknown" => \A k \in Keys : sent = <<k>> => doc.projects[k] = Absent
              /\ key # Null => sent = <<key>>
  /\ key # Null => doc.projects[key] # Absent
  /\ event # Null => event = NameOf(key)

(* No event is dropped behind an answer of 200: what decodes is batched if *)
(* all filters of its project, references and those inside of others       *)
(* included, are conjunctions, and goes unanswered if any is not.          *)
FilteredOrAborted ==
  /\ event # Null => pc \in {"filter", "batched", "aborted"}
  /\ pc = "batched" => \A n \in Required(key) : IsAnd(n)
  /\ pc = "aborted" => \E n \in Required(key) : ~IsAnd(n)

=============================================================================
