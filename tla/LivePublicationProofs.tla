------------------------ MODULE LivePublicationProofs ------------------------
(***************************************************************************)
(* Proofs about LivePublication, for any batches of a finite plan and any  *)
(* number of attempts: the delta has one owner, what is deleted or         *)
(* recorded is behind the head, and no tag is put twice.                   *)
(***************************************************************************)
EXTENDS LivePublication, FiniteSetTheorems, TLAPS

Calling == {"published", "refresh", "final", "terminal"}
OfBatches == {"start", "send", "build", "resolve"}
OfPool == {"pool", "refresh"}

(***************************************************************************)
(* Whose turn it is: execute publishes or reclaims only after it has       *)
(* joined the publisher, and beside a pool there is none to join.          *)
(***************************************************************************)
Turns ==
  /\ pool = "none" => pc \notin OfPool
  /\ pool # "none" => pc \notin OfBatches
  /\ pool = "none" /\ pc \in {"send", "build", "resolve"} \cup Reclaiming =>
       batch <= Len(Batches)
  /\ calls["main"] # NoCall <=> pc \in Calling
  /\ pc \in Calling \cup {"reclaim", "returned"} => publisher = NoPublisher
  /\ pool # "none" /\ pc \notin {"wait", "join"} => publisher = NoPublisher
  /\ calls["background"] # NoCall <=> publisher.state = "publishing"
  /\ result # "none" => pc = "returned"
  /\ pc \in {"published", "final", "terminal"} => calls["main"].force

Inside == {"upload", "flush", "tag", "head"}
Tagged == <<attempt, calls["main"].status>>

(***************************************************************************)
(* The head, the cumulative snapshot and the delta. As long as no          *)
(* publication failed, what the head does not cover is marked: by dirty,   *)
(* by the size of the delta that a call remembers, or by where a call is.  *)
(***************************************************************************)
Chain ==
  /\ parent \cup deleted \subseteq head.paths
  /\ head.paths \subseteq live.content.paths
  /\ head.results \subseteq live.content.results

Marked ==
  \/ live.dirty
  \/ \E w \in Callers :
       \/ calls[w].step = "flush" /\ calls[w].before # Cardinality(delta)
       \/ calls[w].step \in {"tag", "head"}

CallSaves(w) ==
  LET call == calls[w] IN
  /\ call.step \in Inside => ~live.failed
  /\ call.step = "upload" => call.before = Cardinality(delta)
  /\ call.step = "head" =>
       /\ delta \subseteq live.content.paths
       /\ call.status # "none" => <<attempt, call.status>> \in live.content.results
       /\ GenerationTag \in DOMAIN generations
       /\ generations[GenerationTag] = live.content
  /\ call.step = "return" /\ ~call.err /\ call.force => delta \subseteq head.paths
  /\ call # NoCall /\ call.status = "success" => Outputs \subseteq parent \cup delta

\* What was collected, and the result, when execute returns without an error.
Recorded ==
  result \in {"success", "failure"} =>
    delta \subseteq head.paths /\ <<attempt, result>> \in head.results

Saved ==
  /\ ~live.failed => delta \subseteq head.paths \/ Marked
  /\ \A w \in Callers : CallSaves(w)
  /\ pc = "reclaim" => delta \subseteq head.paths
  /\ pc = "terminal" =>
       LET call == calls["main"] IN
       /\ call.step \in {"tag", "head", "return"}
       /\ call.step # "return" \/ ~call.err => call.status # "none"
       /\ call.step = "return" /\ ~call.err => Tagged \in head.results
  /\ Recorded

\* The records are true behind the head and in what will be the head.
Truthful(content) ==
  \A r \in content.results : r[2] = "success" => Outputs \subseteq content.paths

\* The tags of this attempt that exist: the next one only inside a call that
\* then moves the head, or after a failure.
TagsUsed ==
  \A g \in DOMAIN generations :
    /\ g[1] <= attempt
    /\ g[1] = attempt =>
         \/ g[2] <= live.published
         \/ live.failed
         \/ g = GenerationTag /\ \E w \in Callers : calls[w].step = "head"

LiveInv ==
  /\ TypeOK /\ Turns /\ Chain /\ Saved /\ TagsUsed
  /\ Truthful(head) /\ Truthful(live.content)

(***************************************************************************)
(* Calls.                                                                  *)
(***************************************************************************)
LEMMA CallFacts ==
  ASSUME TypeOK, NEW w \in Callers
  PROVE  /\ calls[w] = NoCall \/ calls[w] \in Call
         /\ calls[w].step # "idle" => calls[w] \in Call
         /\ \A c \in Call : c # NoCall /\ c.step # "idle"
         /\ NoCall.step = "idle"
         /\ \A c \in Call \cup {NoCall} :
              /\ [calls EXCEPT ![w] = c] \in [Callers -> Call \cup {NoCall}]
              /\ [calls EXCEPT ![w] = c][w] = c
              /\ \A v \in Callers \ {w} : [calls EXCEPT ![w] = c][v] = calls[v]
<1>1. \A c \in Call : c.step # "idle"
  BY DEF Call
<1>2. NoCall.step = "idle"
  BY DEF NoCall
<1> QED BY <1>1, <1>2 DEF TypeOK

\* There is one call at a time, and only in its turn.
LEMMA OneCall ==
  ASSUME TypeOK, Turns, NEW w \in Callers, calls[w] # NoCall
  PROVE  /\ \A v \in Callers \ {w} : calls[v] = NoCall /\ calls[v].step = "idle"
         /\ pc \notin {"reclaim", "returned"} /\ result = "none"
         /\ pc \in {"published", "final", "terminal"} => w = "main"
<1>1. publisher = NoPublisher => calls["background"] = NoCall
  BY DEF Turns, NoPublisher
<1>2. w = "main" \/ w = "background"
  BY DEF Callers
<1>3. result \in {"none", "success", "failure", "error"}
  BY DEF TypeOK
<1> QED BY <1>1, <1>2, <1>3 DEF Turns, Calling, Callers, NoCall

\* What every step of a publication leaves alone.
LEMMA PublicationFrame ==
  ASSUME TypeOK, NEW w \in Callers, Publication(w)
  PROVE  /\ UNCHANGED <<mainVars, storeVars, attemptVars, publisher>>
         /\ calls[w] \in Call /\ calls'[w] \in Call
         /\ calls' \in [Callers -> Call \cup {NoCall}]
         /\ calls'[w].force = calls[w].force /\ calls'[w].status = calls[w].status
         /\ \A v \in Callers \ {w} : calls'[v] = calls[v]
         /\ delta' \subseteq Outputs
<1> USE CallFacts
<1>1. calls[w].step # "idle"
  BY DEF Publication, Select, Upload, Flush, Tag, AdvanceHead, At
<1>2. calls[w] \in Call
  BY <1>1
<1>3. UNCHANGED <<mainVars, storeVars, attemptVars, publisher>>
  BY DEF Publication, Select, Upload, Flush, Tag, AdvanceHead
<1>4. IsFiniteSet(Outputs) /\ delta \subseteq Outputs
  BY LivePublicationAssumption DEF TypeOK
<1>5. Cardinality(delta) \in 0..Cardinality(Outputs)
  BY <1>4, FS_Subset, FS_CardinalityType
<1>6. \A err \in BOOLEAN : [calls[w] EXCEPT !.step = "return", !.err = err] \in Call
  BY <1>2 DEF Call
<1>7. CASE Select(w)
  <2>1. \A err \in BOOLEAN, s \in {"flush", "upload"}, S \in SUBSET Outputs :
          [calls[w] EXCEPT !.step = s, !.err = err, !.before = Cardinality(delta),
                           !.selected = S] \in Call
    BY <1>2, <1>5 DEF Call
  <2>2. \E c \in Call : /\ calls' = [calls EXCEPT ![w] = c]
                        /\ c.force = calls[w].force /\ c.status = calls[w].status
    <3>1. CASE live.failed
      <4> DEFINE c == [calls[w] EXCEPT !.step = "return", !.err = TRUE]
      <4>1. c \in Call /\ c.force = calls[w].force /\ c.status = calls[w].status
        BY <1>2, <1>6 DEF Call
      <4>2. calls' = [calls EXCEPT ![w] = c]
        BY <1>7, <3>1 DEF Select, Return, Set
      <4> QED BY <4>1, <4>2
    <3>2. CASE ~live.failed
      <4>1. PICK err \in BOOLEAN :
              Set(w, [calls[w] EXCEPT
                      !.step = IF err THEN "flush" ELSE "upload", !.err = err,
                      !.before = Cardinality(delta),
                      !.selected = (calls[w].required \cap local)
                                     \ (delta \cup parent)])
        BY <1>7, <3>2 DEF Select
      <4> DEFINE s == IF err THEN "flush" ELSE "upload"
      <4> DEFINE S == (calls[w].required \cap local) \ (delta \cup parent)
      <4>2. s \in {"flush", "upload"} /\ S \in SUBSET Outputs
        BY DEF TypeOK
      <4> DEFINE c == [calls[w] EXCEPT !.step = s, !.err = err,
                         !.before = Cardinality(delta), !.selected = S]
      <4>3. calls' = [calls EXCEPT ![w] = c]
        BY <4>1 DEF Set
      <4>4. c.force = calls[w].force /\ c.status = calls[w].status
        BY <1>2 DEF Call
      <4> HIDE DEF s, S
      <4>5. c \in Call
        BY <2>1, <4>2
      <4> QED BY <4>3, <4>4, <4>5
    <3> QED BY <3>1, <3>2
  <2>3. delta' = delta
    BY <1>7 DEF Select
  <2> QED BY <1>2, <1>3, <1>4, <2>2, <2>3
<1>8. CASE Upload(w)
  <2>1. PICK S \in SUBSET calls[w].selected :
          /\ delta' = delta \cup S
          /\ Set(w, [calls[w] EXCEPT !.step = "flush",
                                     !.err = S # calls[w].selected])
    BY <1>8 DEF Upload
  <2> DEFINE c == [calls[w] EXCEPT !.step = "flush", !.err = S # calls[w].selected]
  <2>2. c \in Call /\ c.force = calls[w].force /\ c.status = calls[w].status
    BY <1>2 DEF Call
  <2>3. calls' = [calls EXCEPT ![w] = c]
    BY <2>1 DEF Set
  <2>4. delta' \subseteq Outputs
    BY <1>2, <1>4, <2>1 DEF Call
  <2> HIDE DEF c
  <2> QED BY <1>2, <1>3, <2>2, <2>3, <2>4
<1>9. CASE Flush(w) \/ Tag(w) \/ AdvanceHead(w)
  <2>1. delta' = delta
    BY <1>9 DEF Flush, Tag, AdvanceHead
  <2>2. \E s \in {"return", "tag", "head"}, err \in BOOLEAN :
          calls' = [calls EXCEPT ![w] = [calls[w] EXCEPT !.step = s, !.err = err]]
    <3> DEFINE Now(s, err) == [calls[w] EXCEPT !.step = s, !.err = err]
    <3>1. calls[w].err \in BOOLEAN
      BY <1>2 DEF Call
    <3>2. \A s : Now(s, calls[w].err) = [calls[w] EXCEPT !.step = s]
      BY <1>2 DEF Call
    <3>3. \/ calls' = [calls EXCEPT ![w] = [calls[w] EXCEPT !.step = "tag"]]
          \/ calls' = [calls EXCEPT ![w] = [calls[w] EXCEPT !.step = "head"]]
          \/ calls' = [calls EXCEPT ![w] = Now("return", calls[w].err)]
          \/ calls' = [calls EXCEPT ![w] = Now("return", TRUE)]
      BY <1>9 DEF Flush, Tag, AdvanceHead, Set, Return, Fail
    <3> HIDE DEF Now
    <3>4. \E s \in {"return", "tag", "head"}, err \in BOOLEAN :
            calls' = [calls EXCEPT ![w] = Now(s, err)]
      BY <3>1, <3>2, <3>3
    <3> QED BY <3>4 DEF Now
  <2>3. PICK s \in {"return", "tag", "head"}, err \in BOOLEAN :
          calls' = [calls EXCEPT ![w] = [calls[w] EXCEPT !.step = s, !.err = err]]
    BY <2>2
  <2> DEFINE c == [calls[w] EXCEPT !.step = s, !.err = err]
  <2>4. c \in Call /\ c.force = calls[w].force /\ c.status = calls[w].status
    BY <1>2 DEF Call
  <2>5. calls' = [calls EXCEPT ![w] = c]
    BY <2>3
  <2> HIDE DEF c
  <2> QED BY <1>2, <1>3, <1>4, <2>1, <2>4, <2>5
<1> QED BY <1>7, <1>8, <1>9 DEF Publication

\* What a publication writes.
LEMMA MergedFacts ==
  ASSUME TypeOK, NEW w \in Callers, calls[w] \in Call
  PROVE  /\ Merged(w) \in Content
         /\ live.content.paths \cup delta \subseteq Merged(w).paths
         /\ live.content.results \subseteq Merged(w).results
         /\ calls[w].status # "none" => <<attempt, calls[w].status>> \in Merged(w).results
         /\ \A r \in Merged(w).results :
              r \in live.content.results \/ r[2] = calls[w].status
         /\ GenerationTag \in (1..MaxAttempts) \X Nat
         /\ GenerationTag[1] = attempt /\ GenerationTag[2] = live.published + 1
<1> DEFINE new == IF calls[w].status = "none" THEN {} ELSE { <<attempt, calls[w].status>> }
<1>1. new \subseteq (1..MaxAttempts) \X {"success", "failure"}
  BY DEF TypeOK, Call
<1>2. live.content \in Content /\ live.published \in Nat /\ delta \subseteq Outputs
        /\ attempt \in 1..MaxAttempts
  BY DEF TypeOK
<1>3. /\ Merged(w).paths = live.content.paths \cup delta
      /\ Merged(w).results = live.content.results \cup new
      /\ Merged(w) = [paths |-> live.content.paths \cup delta,
                      results |-> live.content.results \cup new]
  BY DEF Merged
<1>4. \A r \in new : r[2] = calls[w].status
  OBVIOUS
<1>5. calls[w].status # "none" => <<attempt, calls[w].status>> \in new
  OBVIOUS
<1> HIDE DEF new
<1>6. Merged(w) \in Content
  BY <1>1, <1>2, <1>3 DEF Content
<1> QED BY <1>2, <1>3, <1>4, <1>5, <1>6 DEF GenerationTag

LiveType ==
  [content : Content, published : Nat, failed : BOOLEAN, dirty : BOOLEAN]

\* Putting a generation.
LEMMA PutFacts ==
  ASSUME TypeOK, NEW c \in Content, PutGeneration(c)
  PROVE  /\ DOMAIN generations' = DOMAIN generations \cup {GenerationTag}
         /\ generations'[GenerationTag] = c
         /\ \A g \in DOMAIN generations :
              g # GenerationTag => generations'[g] = generations[g]
         /\ DOMAIN generations' \subseteq (1..MaxAttempts) \X Nat
         /\ \A g \in DOMAIN generations' : generations'[g] \in Content
<1>1. GenerationTag \in (1..MaxAttempts) \X Nat
  BY DEF GenerationTag, TypeOK
<1> DEFINE D == DOMAIN generations \cup {GenerationTag}
<1>2. generations' = [g \in D |-> IF g = GenerationTag THEN c ELSE generations[g]]
  BY DEF PutGeneration
<1>3. D \subseteq (1..MaxAttempts) \X Nat /\ GenerationTag \in D
  BY <1>1 DEF TypeOK
<1>4. DOMAIN generations' = D
  BY <1>2
<1>5. \A g \in D : generations'[g] = IF g = GenerationTag THEN c ELSE generations[g]
  BY <1>2
<1>6. \A g \in DOMAIN generations : generations[g] \in Content
  BY DEF TypeOK
<1> QED BY <1>3, <1>4, <1>5, <1>6

\* A publication that fails, and the two requests at its end.
LEMMA RequestSteps ==
  ASSUME TypeOK, NEW w \in Callers, calls[w] \in Call, Tag(w) \/ AdvanceHead(w)
  PROVE  /\ live' \in LiveType /\ head' \in Content
         /\ DOMAIN generations' \subseteq (1..MaxAttempts) \X Nat
         /\ \A g \in DOMAIN generations' : generations'[g] \in Content
<1>1. Merged(w) \in Content
  BY MergedFacts
<1>2. live \in LiveType /\ live.content \in Content
  BY DEF TypeOK, LiveType
<1>3. live' \in LiveType
  <2>1. \/ \E c \in {Merged(w), live.content} :
             \/ live' = [live EXCEPT !.content = c]
             \/ live' = [live EXCEPT !.content = c, !.failed = TRUE]
        \/ live' = [live EXCEPT !.published = live.published + 1, !.dirty = FALSE]
    BY DEF Tag, AdvanceHead, Fail, Published
  <2>2. live.published + 1 \in Nat
    BY <1>2 DEF LiveType
  <2> QED BY <1>1, <1>2, <2>1, <2>2 DEF LiveType
<1>4. UNCHANGED generations \/ PutGeneration(Merged(w))
  BY DEF Tag, AdvanceHead
<1>5. head' \in {head, live.content}
  BY DEF Tag, AdvanceHead
<1> QED BY <1>1, <1>2, <1>3, <1>4, <1>5, PutFacts DEF TypeOK

\* A publication keeps the types and whose turn it is.
LEMMA PublicationTurns ==
  ASSUME TypeOK, Turns, NEW w \in Callers, Publication(w)
  PROVE  TypeOK' /\ Turns'
<1>1. /\ UNCHANGED <<mainVars, storeVars, attemptVars, publisher>>
      /\ calls[w] \in Call /\ calls'[w] \in Call
      /\ calls' \in [Callers -> Call \cup {NoCall}]
      /\ calls'[w].force = calls[w].force
      /\ \A v \in Callers \ {w} : calls'[v] = calls[v]
      /\ delta' \subseteq Outputs
  BY PublicationFrame
<1>2. calls[w] # NoCall /\ calls'[w] # NoCall
  BY <1>1, CallFacts
<1>3. \A v \in Callers : (calls'[v] = NoCall <=> calls[v] = NoCall)
                           /\ calls'[v].force = calls[v].force
  BY <1>1, <1>2
<1>4. Turns'
  BY <1>1, <1>3 DEF Turns, mainVars, attemptVars, Callers
<1>5. /\ live' \in LiveType /\ head' \in Content
      /\ DOMAIN generations' \subseteq (1..MaxAttempts) \X Nat
      /\ \A g \in DOMAIN generations' : generations'[g] \in Content
  <2>1. live \in LiveType /\ head \in Content
        /\ DOMAIN generations \subseteq (1..MaxAttempts) \X Nat
        /\ \A g \in DOMAIN generations : generations[g] \in Content
    BY DEF TypeOK, LiveType
  <2>2. CASE Select(w) \/ Upload(w)
    BY <2>1, <2>2 DEF Select, Upload, registryVars
  <2>3. CASE Flush(w)
    <3>1. Dirty(w) \in BOOLEAN
      BY <2>1 DEF Dirty, LiveType
    <3>2. live' = [live EXCEPT !.dirty = Dirty(w)] /\ UNCHANGED registryVars
      BY <2>3 DEF Flush
    <3> QED BY <2>1, <3>1, <3>2 DEF LiveType, registryVars
  <2>4. CASE Tag(w) \/ AdvanceHead(w)
    BY <1>1, <2>4, RequestSteps
  <2> QED BY <2>2, <2>3, <2>4 DEF Publication
<1>6. TypeOK'
  BY <1>1, <1>5 DEF TypeOK, mainVars, storeVars, attemptVars, LiveType
<1> QED BY <1>4, <1>6

(***************************************************************************)
(* The steps of a publication.                                             *)
(***************************************************************************)
MarkedBy(w) ==
  \/ live.dirty
  \/ calls[w].step = "flush" /\ calls[w].before # Cardinality(delta)
  \/ calls[w].step \in {"tag", "head"}

\* The call in progress is the only one that matters.
LEMMA SavedByCall ==
  ASSUME TypeOK, Turns, Saved, NEW w \in Callers, Publication(w),
         CallSaves(w)',
         ~live'.failed => delta' \subseteq head'.paths \/ MarkedBy(w)',
         pc = "terminal" =>
           /\ calls'[w].step \in {"tag", "head", "return"}
           /\ calls'[w].step # "return" \/ ~calls'[w].err => calls'[w].status # "none"
           /\ calls'[w].step = "return" /\ ~calls'[w].err =>
                <<attempt, calls'[w].status>> \in head'.results
  PROVE  Saved'
<1>1. /\ UNCHANGED <<mainVars, attemptVars>>
      /\ calls[w] # NoCall
      /\ \A v \in Callers \ {w} : calls'[v] = calls[v]
  BY PublicationFrame, CallFacts
<1>2. /\ \A v \in Callers \ {w} : calls'[v] = NoCall /\ calls'[v].step = "idle"
      /\ pc \notin {"reclaim", "returned"} /\ result = "none"
      /\ pc = "terminal" => w = "main"
  BY <1>1, OneCall
<1>3. \A v \in Callers : CallSaves(v)'
  <2> SUFFICES ASSUME NEW v \in Callers, v # w PROVE CallSaves(v)'
    OBVIOUS
  <2>1. calls'[v] = NoCall /\ calls'[v].step = "idle"
    BY <1>2
  <2> QED BY <2>1 DEF CallSaves, Inside
<1>4. ~live'.failed => delta' \subseteq head'.paths \/ Marked'
  BY DEF Marked, MarkedBy
<1>5. pc' = pc /\ result' = result /\ attempt' = attempt
  BY <1>1 DEF mainVars, attemptVars
<1> QED BY <1>2, <1>3, <1>4, <1>5 DEF Saved, Recorded, Tagged

\* What the invariant says before the step.
LEMMA CallNow ==
  ASSUME TypeOK, Turns, Saved, NEW w \in Callers, calls[w] # NoCall
  PROVE  /\ CallSaves(w)
         /\ ~live.failed => delta \subseteq head.paths \/ MarkedBy(w)
         /\ pc = "terminal" =>
              /\ calls[w].step \in {"tag", "head", "return"}
              /\ calls[w].step # "return" => calls[w].status # "none"
<1>1. /\ \A v \in Callers \ {w} : calls[v] = NoCall /\ calls[v].step = "idle"
      /\ pc = "terminal" => w = "main"
  BY OneCall
<1> QED BY <1>1 DEF Saved, Marked, MarkedBy

\* Selecting and uploading write nothing but the delta.
LEMMA SelectSaves ==
  ASSUME LiveInv, NEW w \in Callers, Select(w)
  PROVE  LiveInv'
<1> USE DEF LiveInv
<1>1. Publication(w)
  BY DEF Publication
<1>2. /\ UNCHANGED <<delta, live, generations, head, attempt, parent, deleted, pc>>
      /\ calls[w].step = "select"
      /\ calls[w] \in Call /\ calls[w] # NoCall
      /\ calls'[w].status = calls[w].status
      /\ \A v \in Callers \ {w} : calls'[v] = calls[v]
  BY <1>1, CallFacts, PublicationFrame
  DEF Select, At, registryVars, attemptVars, storeVars, mainVars
<1>3. \/ live.failed /\ calls'[w].step = "return" /\ calls'[w].err = TRUE
      \/ /\ ~live.failed /\ calls'[w].step \in {"flush", "upload"}
         /\ calls'[w].before = Cardinality(delta)
  <2>1. calls \in [Callers -> Call \cup {NoCall}]
    BY DEF TypeOK
  <2>2. CASE live.failed
    <3>1. calls'[w] = [calls[w] EXCEPT !.step = "return", !.err = TRUE]
      BY <2>1, <2>2 DEF Select, Return, Set
    <3> QED BY <1>2, <2>2, <3>1 DEF Call
  <2>3. CASE ~live.failed
    <3>1. PICK err \in BOOLEAN :
            Set(w, [calls[w] EXCEPT
                    !.step = IF err THEN "flush" ELSE "upload", !.err = err,
                    !.before = Cardinality(delta),
                    !.selected = (calls[w].required \cap local)
                                   \ (delta \cup parent)])
      BY <2>3 DEF Select
    <3> DEFINE s == IF err THEN "flush" ELSE "upload"
    <3> DEFINE S == (calls[w].required \cap local) \ (delta \cup parent)
    <3> DEFINE n == Cardinality(delta)
    <3>2. calls'[w] = [calls[w] EXCEPT !.step = s, !.err = err, !.before = n,
                                       !.selected = S]
      BY <2>1, <3>1 DEF Set
    <3>3. s \in {"flush", "upload"}
      OBVIOUS
    <3> HIDE DEF s, S, n
    <3>4. calls'[w].step = s /\ calls'[w].before = n
      BY <1>2, <3>2 DEF Call
    <3> QED BY <2>3, <3>3, <3>4 DEF n
  <2> QED BY <2>2, <2>3
<1>4. CallSaves(w) /\ (~live.failed => delta \subseteq head.paths \/ MarkedBy(w))
        /\ pc # "terminal"
  BY <1>2, CallNow
<1>5. CallSaves(w)'
  BY <1>2, <1>3, <1>4 DEF CallSaves, Inside
<1>6. ~live'.failed => delta' \subseteq head'.paths \/ MarkedBy(w)'
  BY <1>2, <1>3, <1>4 DEF MarkedBy
<1>7. Saved'
  BY <1>1, <1>4, <1>5, <1>6, SavedByCall
<1>8. \A v \in Callers : calls[v].step # "head"
  BY <1>2, OneCall
<1>9. Chain' /\ TagsUsed' /\ Truthful(head)' /\ Truthful(live.content)'
  BY <1>2, <1>8 DEF Chain, TagsUsed, Truthful, GenerationTag
<1> QED BY <1>1, <1>7, <1>9, PublicationTurns

LEMMA UploadSaves ==
  ASSUME LiveInv, NEW w \in Callers, Upload(w)
  PROVE  LiveInv'
<1> USE DEF LiveInv
<1>1. Publication(w)
  BY DEF Publication
<1>2. /\ UNCHANGED <<live, generations, head, attempt, parent, deleted, pc>>
      /\ calls[w].step = "upload"
      /\ calls[w] \in Call /\ calls[w] # NoCall /\ calls'[w] # NoCall
      /\ calls'[w].status = calls[w].status
      /\ \A v \in Callers \ {w} : calls'[v] = calls[v]
      /\ delta' \subseteq Outputs
  BY <1>1, CallFacts, PublicationFrame
  DEF Upload, At, registryVars, attemptVars, storeVars, mainVars
<1>3. /\ delta \subseteq delta' /\ calls'[w].step = "flush"
      /\ calls'[w].before = calls[w].before
  <2>1. calls \in [Callers -> Call \cup {NoCall}]
    BY DEF TypeOK
  <2> QED BY <1>2, <2>1 DEF Upload, Set, Call
<1>4. CallSaves(w) /\ (~live.failed => delta \subseteq head.paths \/ MarkedBy(w))
        /\ pc # "terminal"
  BY <1>2, CallNow
<1>5. CallSaves(w)'
  BY <1>2, <1>3, <1>4 DEF CallSaves, Inside
<1>6. delta' = delta \/ calls[w].before # Cardinality(delta')
  <2>1. IsFiniteSet(delta')
    BY <1>2, LivePublicationAssumption, FS_Subset
  <2>2. Cardinality(delta') = Cardinality(delta) => delta' = delta
    BY <1>3, <2>1, FS_Subset
  <2> QED BY <1>2, <1>4, <2>2 DEF CallSaves
<1>7. ~live'.failed => delta' \subseteq head'.paths \/ MarkedBy(w)'
  BY <1>2, <1>3, <1>4, <1>6 DEF MarkedBy
<1>8. Saved'
  BY <1>1, <1>4, <1>5, <1>7, SavedByCall
<1>9. \A v \in Callers : calls[v].step # "head"
  BY <1>2, OneCall
<1>10. Chain' /\ TagsUsed' /\ Truthful(head)' /\ Truthful(live.content)'
  BY <1>2, <1>9 DEF Chain, TagsUsed, Truthful, GenerationTag
<1> QED BY <1>1, <1>8, <1>10, PublicationTurns

\* Where a call that ends its collection goes.
LEMMA FlushSaves ==
  ASSUME LiveInv, NEW w \in Callers, Flush(w)
  PROVE  LiveInv'
<1> USE DEF LiveInv
<1>1. Publication(w)
  BY DEF Publication
<1>2. /\ UNCHANGED <<delta, generations, head, attempt, parent, deleted, pc>>
      /\ calls[w].step = "flush"
      /\ calls[w] \in Call /\ calls[w] # NoCall /\ calls'[w] # NoCall
      /\ calls'[w].status = calls[w].status /\ calls'[w].force = calls[w].force
      /\ \A v \in Callers \ {w} : calls'[v] = calls[v]
  BY <1>1, CallFacts, PublicationFrame
  DEF Flush, At, registryVars, attemptVars, storeVars, mainVars
<1>3. /\ live'.dirty = Dirty(w) /\ live'.failed = live.failed
      /\ live'.content = live.content /\ live'.published = live.published
  <2>1. live \in LiveType /\ live' = [live EXCEPT !.dirty = Dirty(w)]
    BY DEF TypeOK, LiveType, Flush
  <2> QED BY <2>1 DEF LiveType
<1>4. \/ /\ calls'[w].step = "return" /\ calls'[w].err = calls[w].err
         /\ ~Dirty(w) \/ ~(calls[w].force \/ calls[w].err)
      \/ calls'[w].step = "tag" /\ Dirty(w)
  <2>1. calls \in [Callers -> Call \cup {NoCall}]
    BY DEF TypeOK
  <2> QED BY <1>2, <2>1 DEF Flush, Return, Set, Call
<1>5. CallSaves(w) /\ (~live.failed => delta \subseteq head.paths \/ MarkedBy(w))
        /\ pc # "terminal" /\ ~live.failed
  BY <1>2, CallNow DEF CallSaves, Inside
<1>6. ~Dirty(w) => delta \subseteq head.paths
  BY <1>2, <1>5 DEF Dirty, MarkedBy
<1>7. CallSaves(w)'
  BY <1>2, <1>3, <1>4, <1>5, <1>6 DEF CallSaves, Inside
<1>8. ~live'.failed => delta' \subseteq head'.paths \/ MarkedBy(w)'
  BY <1>2, <1>3, <1>6 DEF MarkedBy
<1>9. Saved'
  BY <1>1, <1>5, <1>7, <1>8, SavedByCall
<1>10. \A v \in Callers : calls[v].step # "head"
  BY <1>2, OneCall
<1>11. Chain' /\ TagsUsed' /\ Truthful(head)' /\ Truthful(live.content)'
  BY <1>2, <1>3, <1>10 DEF Chain, TagsUsed, Truthful, GenerationTag
<1> QED BY <1>1, <1>9, <1>11, PublicationTurns

\* The tag is put under a number that no tag of the attempt has.
LEMMA TagSaves ==
  ASSUME LiveInv, NEW w \in Callers, Tag(w)
  PROVE  /\ LiveInv'
         /\ GenerationTag \notin DOMAIN generations
<1> USE DEF LiveInv
<1>1. Publication(w)
  BY DEF Publication
<1>2. /\ UNCHANGED <<delta, head, attempt, parent, deleted, pc>>
      /\ calls[w].step = "tag"
      /\ calls[w] \in Call /\ calls[w] # NoCall /\ calls'[w] # NoCall
      /\ calls'[w].status = calls[w].status /\ calls'[w].force = calls[w].force
      /\ \A v \in Callers \ {w} : calls'[v] = calls[v]
  BY <1>1, CallFacts, PublicationFrame
  DEF Tag, At, attemptVars, storeVars, mainVars
<1>3. \A v \in Callers : calls[v].step # "head"
  BY <1>2, OneCall
<1>4. CallSaves(w) /\ ~live.failed
        /\ (pc = "terminal" => calls[w].status # "none")
  BY <1>2, CallNow DEF CallSaves, Inside
<1>5. /\ Merged(w) \in Content
      /\ live.content.paths \cup delta \subseteq Merged(w).paths
      /\ live.content.results \subseteq Merged(w).results
      /\ calls[w].status # "none" => <<attempt, calls[w].status>> \in Merged(w).results
      /\ \A r \in Merged(w).results :
           r \in live.content.results \/ r[2] = calls[w].status
      /\ GenerationTag \in (1..MaxAttempts) \X Nat
      /\ GenerationTag[1] = attempt /\ GenerationTag[2] = live.published + 1
  BY <1>2, MergedFacts
<1>6. live.published \in Nat /\ live \in LiveType /\ attempt \in 1..MaxAttempts
        /\ DOMAIN generations \subseteq (1..MaxAttempts) \X Nat
  BY DEF TypeOK, LiveType
<1>7. GenerationTag \notin DOMAIN generations
  BY <1>3, <1>4, <1>5, <1>6 DEF TagsUsed
<1>8. /\ live'.content = Merged(w) /\ live'.published = live.published
      /\ live'.dirty = live.dirty
      /\ \/ /\ ~live'.failed /\ calls'[w].step = "head" /\ PutGeneration(Merged(w))
         \/ /\ live'.failed /\ calls'[w].step = "return" /\ calls'[w].err
            /\ UNCHANGED generations \/ PutGeneration(Merged(w))
  <2>1. calls \in [Callers -> Call \cup {NoCall}]
    BY DEF TypeOK
  <2>2. CASE PutGeneration(Merged(w))
             /\ live' = [live EXCEPT !.content = Merged(w)]
             /\ Set(w, [calls[w] EXCEPT !.step = "head"])
    BY <1>2, <1>4, <1>6, <2>1, <2>2 DEF Set, Call, LiveType
  <2>3. CASE Fail(w, Merged(w)) /\ (UNCHANGED generations \/ PutGeneration(Merged(w)))
    <3>1. live' = [live EXCEPT !.content = Merged(w), !.failed = TRUE]
          /\ calls' = [calls EXCEPT ![w] = [calls[w] EXCEPT !.step = "return", !.err = TRUE]]
      BY <2>3 DEF Fail, Return, Set
    <3>2. calls'[w] = [calls[w] EXCEPT !.step = "return", !.err = TRUE]
      BY <2>1, <3>1
    <3> DEFINE new == Merged(w)
    <3>3. live' = [live EXCEPT !.content = new, !.failed = TRUE]
      BY <3>1
    <3> HIDE DEF new
    <3>4. /\ live'.content = new /\ live'.published = live.published
          /\ live'.dirty = live.dirty /\ live'.failed
      BY <1>6, <3>3 DEF LiveType
    <3>5. calls'[w].step = "return" /\ calls'[w].err
      BY <1>2, <3>2 DEF Call
    <3> QED BY <2>3, <3>4, <3>5 DEF new
  <2> QED BY <2>2, <2>3 DEF Tag
<1>9. GenerationTag' = GenerationTag
  BY <1>2, <1>8 DEF GenerationTag
<1>10. PutGeneration(Merged(w)) =>
         /\ DOMAIN generations' = DOMAIN generations \cup {GenerationTag}
         /\ generations'[GenerationTag] = Merged(w)
  BY <1>5, PutFacts
<1>11. CallSaves(w)'
  BY <1>2, <1>4, <1>5, <1>8, <1>9, <1>10 DEF CallSaves, Inside
<1>12. ~live'.failed => delta' \subseteq head'.paths \/ MarkedBy(w)'
  BY <1>8 DEF MarkedBy
<1>13. Saved'
  BY <1>1, <1>2, <1>4, <1>8, <1>11, <1>12, SavedByCall
<1>14. Chain' /\ Truthful(head)' /\ Truthful(live.content)'
  BY <1>2, <1>4, <1>5, <1>8 DEF Chain, Truthful, CallSaves
<1>15. TagsUsed'
  BY <1>2, <1>3, <1>4, <1>5, <1>6, <1>8, <1>9, <1>10 DEF TagsUsed
<1> QED BY <1>1, <1>7, <1>13, <1>14, <1>15, PublicationTurns

\* The head moves to what was tagged.
LEMMA HeadSaves ==
  ASSUME LiveInv, NEW w \in Callers, AdvanceHead(w)
  PROVE  /\ LiveInv'
         /\ GenerationTag \in DOMAIN generations
         /\ head' = head \/ head' = generations[GenerationTag]
<1> USE DEF LiveInv
<1>1. Publication(w)
  BY DEF Publication
<1>2. /\ UNCHANGED <<delta, generations, attempt, parent, deleted, pc>>
      /\ calls[w].step = "head"
      /\ calls[w] \in Call /\ calls[w] # NoCall /\ calls'[w] # NoCall
      /\ calls'[w].status = calls[w].status /\ calls'[w].force = calls[w].force
      /\ \A v \in Callers \ {w} : calls'[v] = calls[v]
  BY <1>1, CallFacts, PublicationFrame
  DEF AdvanceHead, At, attemptVars, storeVars, mainVars
<1>3. CallSaves(w) /\ ~live.failed
        /\ (pc = "terminal" => calls[w].status # "none")
  BY <1>2, CallNow DEF CallSaves, Inside
<1>4. live.published \in Nat /\ live \in LiveType /\ attempt \in 1..MaxAttempts
        /\ DOMAIN generations \subseteq (1..MaxAttempts) \X Nat
  BY DEF TypeOK, LiveType
<1>5. /\ live'.content = live.content /\ calls'[w].step = "return"
      /\ \/ /\ head' = live.content /\ ~live'.failed
            /\ live'.published = live.published + 1
            /\ calls'[w].err = calls[w].err
         \/ /\ head' \in {head, live.content} /\ live'.failed /\ calls'[w].err
            /\ live'.published = live.published
  <2>1. calls \in [Callers -> Call \cup {NoCall}]
    BY DEF TypeOK
  <2>2. CASE head' = live.content /\ live' = Published /\ Return(w, calls[w].err)
    <3>1. live' = [live EXCEPT !.published = live.published + 1, !.dirty = FALSE]
      BY <2>2 DEF Published
    <3>2. calls'[w] = [calls[w] EXCEPT !.step = "return", !.err = calls[w].err]
      BY <2>1, <2>2 DEF Return, Set
    <3> QED BY <1>2, <1>3, <1>4, <2>2, <3>1, <3>2 DEF Call, LiveType
  <2>3. CASE Fail(w, live.content) /\ head' \in {head, live.content}
    <3>1. live' = [live EXCEPT !.content = live.content, !.failed = TRUE]
      BY <2>3 DEF Fail
    <3>2. calls'[w] = [calls[w] EXCEPT !.step = "return", !.err = TRUE]
      BY <2>1, <2>3 DEF Fail, Return, Set
    <3> QED BY <1>2, <1>4, <2>3, <3>1, <3>2 DEF Call, LiveType
  <2> QED BY <2>2, <2>3 DEF AdvanceHead
<1>6. /\ delta \subseteq live.content.paths
      /\ calls[w].status # "none" => <<attempt, calls[w].status>> \in live.content.results
      /\ GenerationTag \in DOMAIN generations
      /\ generations[GenerationTag] = live.content
  BY <1>2, <1>3 DEF CallSaves
<1>7. head.paths \subseteq head'.paths
  BY <1>5 DEF Chain
<1>8. CallSaves(w)'
  BY <1>2, <1>3, <1>5, <1>6, <1>7 DEF CallSaves, Inside
<1>9. ~live'.failed => delta' \subseteq head'.paths \/ MarkedBy(w)'
  BY <1>2, <1>5, <1>6
<1>10. Saved'
  BY <1>1, <1>2, <1>3, <1>5, <1>6, <1>8, <1>9, SavedByCall
<1>11. Chain' /\ Truthful(head)' /\ Truthful(live.content)'
  BY <1>2, <1>5 DEF Chain, Truthful
<1>12. TagsUsed'
  <2>1. GenerationTag[1] = attempt /\ GenerationTag[2] = live.published + 1
    BY DEF GenerationTag
  <2> QED BY <1>2, <1>3, <1>4, <1>5, <2>1 DEF TagsUsed
<1> QED BY <1>1, <1>5, <1>6, <1>10, <1>11, <1>12, PublicationTurns

LEMMA PublicationSaves ==
  ASSUME LiveInv, NEW w \in Callers, Publication(w)
  PROVE  LiveInv'
BY SelectSaves, UploadSaves, FlushSaves, TagSaves, HeadSaves DEF Publication

(***************************************************************************)
(* Everything else leaves the registry and the delta alone.                *)
(***************************************************************************)
LEMMA QuietStep ==
  ASSUME LiveInv, TypeOK', Turns',
         UNCHANGED <<head, delta, generations, attempt, parent>>,
         deleted' \subseteq head.paths,
         \/ live' = live
         \/ /\ live'.content = live.content /\ live'.published = live.published
            /\ live'.failed /\ \A w \in Callers : calls[w].step \notin Inside,
         \A w \in Callers :
           \/ calls'[w] = calls[w]
           \/ /\ calls[w].step \notin Inside
              /\ \/ calls'[w] = NoCall
                 \/ calls'[w].step = "select" /\ calls'[w].status = "none",
         pc' = "reclaim" => delta \subseteq head.paths,
         pc' # "terminal" \/ (pc' = pc /\ calls' = calls),
         Recorded'
  PROVE  LiveInv'
<1> USE DEF LiveInv
<1>1. GenerationTag' = GenerationTag
  BY DEF GenerationTag
<1>2. NoCall.step = "idle"
  BY DEF NoCall
<1>3. Chain' /\ Truthful(head)' /\ Truthful(live.content)'
  BY DEF Chain, Truthful
<1>4. TagsUsed'
  <2>1. \A w \in Callers : calls[w].step = "head" => calls'[w] = calls[w]
    BY DEF Inside
  <2> QED BY <1>1, <2>1 DEF TagsUsed
<1>5. ~live'.failed => delta' \subseteq head'.paths \/ Marked'
  <2>1. \A w \in Callers : calls[w].step \in {"flush", "tag", "head"} =>
                             calls'[w] = calls[w]
    BY DEF Inside
  <2> QED BY <2>1 DEF Saved, Marked
<1>6. ASSUME NEW w \in Callers PROVE CallSaves(w)'
  <2>1. CallSaves(w)
    BY DEF Saved
  <2>2. CASE calls'[w] = calls[w]
    BY <1>1, <2>1, <2>2 DEF CallSaves
  <2>3. CASE calls'[w] = NoCall
    BY <1>2, <2>3 DEF CallSaves, Inside
  <2>4. CASE calls'[w].step = "select" /\ calls'[w].status = "none"
    BY <2>4 DEF CallSaves, Inside
  <2> QED BY <2>2, <2>3, <2>4
<1>7. Saved'
  BY <1>5, <1>6 DEF Saved, Tagged
<1> QED BY <1>3, <1>4, <1>7

PublisherType ==
  [state : {"none", "top", "publishing", "waiting", "exited"},
   stop : BOOLEAN, err : BOOLEAN, required : SUBSET Outputs,
   full : BOOLEAN, update : SUBSET Outputs]

LEMMA EnteringFacts ==
  ASSUME NEW S \in SUBSET Outputs, NEW force \in BOOLEAN
  PROVE  /\ Entering(S, force) \in Call
         /\ Entering(S, force).step = "select" /\ Entering(S, force).status = "none"
         /\ Entering(S, force).force = force
<1>1. Cardinality(Outputs) \in Nat
  BY LivePublicationAssumption, FS_CardinalityType
<1> QED BY <1>1 DEF Entering, Call

\* The publisher goroutine, between its publications.
LEMMA PublisherSteps ==
  ASSUME LiveInv, PublisherTop \/ PublisherPublished \/ PublisherWaits
  PROVE  LiveInv'
<1> USE DEF LiveInv
<1>1. UNCHANGED <<mainVars, storeVars, attemptVars, delta, live, registryVars>>
  BY DEF PublisherTop, PublisherPublished, PublisherWaits
<1>2. publisher \in PublisherType /\ calls \in [Callers -> Call \cup {NoCall}]
        /\ "background" \in Callers /\ "main" \in Callers /\ required \in SUBSET Outputs
  BY DEF TypeOK, PublisherType, Callers
<1>3. /\ publisher' \in PublisherType /\ publisher'.state # "none"
      /\ publisher.state # "none"
      /\ calls' \in [Callers -> Call \cup {NoCall}] /\ calls'["main"] = calls["main"]
      /\ calls'["background"] # NoCall <=> publisher'.state = "publishing"
      /\ \/ calls' = calls
         \/ /\ calls["background"].step \notin Inside
            /\ \/ calls'["background"] = NoCall
               \/ /\ calls'["background"].step = "select"
                  /\ calls'["background"].status = "none"
  <2>1. CASE PublisherTop
    <3>1. publisher.state = "top" /\ calls["background"] = NoCall
      BY <2>1 DEF PublisherTop, Turns
    <3>2. CASE publisher.stop
      <4>1. publisher' = [publisher EXCEPT !.state = "exited"] /\ calls' = calls
        BY <2>1, <3>2 DEF PublisherTop, Become
      <4> QED BY <1>2, <3>1, <4>1 DEF PublisherType
    <3>3. CASE ~publisher.stop
      <4> DEFINE c == Entering(publisher.required, FALSE)
      <4>1. publisher' = [publisher EXCEPT !.state = "publishing"]
            /\ calls' = [calls EXCEPT !["background"] = c]
        BY <2>1, <3>3 DEF PublisherTop, Become, Set
      <4>2. NoCall.step = "idle"
        BY DEF NoCall
      <4>3. c \in Call /\ c.step = "select" /\ c.status = "none" /\ c # NoCall
        <5>1. publisher.required \in SUBSET Outputs /\ FALSE \in BOOLEAN
          BY <1>2 DEF PublisherType
        <5>2. c \in Call /\ c.step = "select" /\ c.status = "none"
          BY <5>1, EnteringFacts
        <5> HIDE DEF c
        <5> QED BY <4>2, <5>2
      <4> HIDE DEF c
      <4> QED BY <1>2, <3>1, <4>1, <4>2, <4>3 DEF PublisherType, Inside, Callers
    <3> QED BY <3>2, <3>3
  <2>2. CASE PublisherPublished
    <3>1. /\ calls["background"].step = "return"
          /\ calls' = [calls EXCEPT !["background"] = NoCall]
      BY <2>2 DEF PublisherPublished, At, Set
    <3>2. publisher.state = "publishing"
      BY <3>1 DEF Turns, NoCall
    <3>3. \E err \in BOOLEAN :
            publisher' = [publisher EXCEPT !.err = err,
                            !.state = IF err THEN "exited" ELSE "waiting"]
      BY <2>2 DEF PublisherPublished, Become
    <3> QED BY <1>2, <3>1, <3>2, <3>3 DEF PublisherType, Inside, Callers
  <2>3. CASE PublisherWaits
    <3>1. publisher.state = "waiting" /\ calls' = calls
      BY <2>3 DEF PublisherWaits
    <3>2. \/ publisher' = [publisher EXCEPT !.state = "exited"]
          \/ publisher' = [publisher EXCEPT !.state = "top", !.full = FALSE,
                             !.required = publisher.update, !.update = {}]
          \/ publisher' = [publisher EXCEPT !.state = "top"]
      BY <2>3 DEF PublisherWaits, Become
    <3>3. calls["background"] = NoCall
      BY <3>1 DEF Turns
    <3> QED BY <1>2, <3>1, <3>2, <3>3 DEF PublisherType
  <2> QED BY <2>1, <2>2, <2>3
<1>4. publisher # NoPublisher /\ publisher'.state # "none"
  BY <1>3 DEF NoPublisher
<1>5. TypeOK'
  BY <1>1, <1>3 DEF TypeOK, PublisherType, mainVars, storeVars, attemptVars, registryVars
<1>6. Turns'
  BY <1>1, <1>3, <1>4 DEF Turns, mainVars, attemptVars, storeVars
<1>7. Recorded' /\ deleted' \subseteq head.paths
  BY <1>1 DEF Saved, Chain, Recorded, mainVars, attemptVars, registryVars,
              storeVars
<1>8. pc' # "reclaim" /\ pc' # "terminal"
  BY <1>1, <1>4 DEF Turns, mainVars, Calling
<1>9. \A w \in Callers :
        \/ calls'[w] = calls[w]
        \/ /\ calls[w].step \notin Inside
           /\ \/ calls'[w] = NoCall
              \/ calls'[w].step = "select" /\ calls'[w].status = "none"
  BY <1>3 DEF Callers
<1> QED BY <1>1, <1>5, <1>6, <1>7, <1>8, <1>9, QuietStep
        DEF mainVars, attemptVars, registryVars

(***************************************************************************)
(* execute between its publications.                                       *)
(***************************************************************************)
\* A step that makes no call, and publishes nothing.
LEMMA NoCallStep ==
  ASSUME LiveInv, TypeOK', Turns',
         UNCHANGED <<calls, live, head, delta, generations, attempt, parent, result>>,
         deleted' \subseteq head.paths,
         pc' = "reclaim" => pc' = pc,
         pc' = "terminal" => pc' = pc
  PROVE  LiveInv'
<1>1. Recorded'
  BY DEF LiveInv, Saved, Recorded
<1>2. pc' = "reclaim" => delta \subseteq head.paths
  BY DEF LiveInv, Saved
<1> QED BY <1>1, <1>2, QuietStep

\* Publisher states that execute makes.
LEMMA PublisherFacts ==
  ASSUME TypeOK, NEW S \in SUBSET Outputs
  PROVE  /\ NoPublisher \in PublisherType /\ NoPublisher.state = "none"
         /\ [NoPublisher EXCEPT !.state = "top", !.required = S] \in PublisherType
         /\ [NoPublisher EXCEPT !.state = "top", !.required = S].state = "top"
         /\ [publisher EXCEPT !.full = FALSE, !.update = {}] \in PublisherType
         /\ [publisher EXCEPT !.full = FALSE, !.update = {}].state = publisher.state
         /\ [publisher EXCEPT !.full = TRUE, !.update = S] \in PublisherType
         /\ [publisher EXCEPT !.full = TRUE, !.update = S].state = publisher.state
         /\ [publisher EXCEPT !.stop = TRUE] \in PublisherType
         /\ [publisher EXCEPT !.stop = TRUE].state = publisher.state
<1>1. publisher \in PublisherType
  BY DEF TypeOK, PublisherType
<1> QED BY <1>1 DEF PublisherType, NoPublisher

LEMMA BatchSteps ==
  ASSUME LiveInv, StartPublication \/ SendPlan \/ Finish
  PROVE  LiveInv'
<1> USE DEF LiveInv
<1>1. /\ UNCHANGED <<batch, exit, result, storeVars, attemptVars, delta, calls, live,
                     registryVars>>
      /\ pc' \in {"finish", "build", "send", "join"}
      /\ failure' \in BOOLEAN
  BY DEF StartPublication, SendPlan, Finish, Leave, TypeOK
<1>2. required \in SUBSET Outputs
  BY DEF TypeOK
<1>3. /\ publisher' \in PublisherType
      /\ publisher'.state = publisher.state
           \/ (publisher.state = "none" /\ publisher'.state = "top")
      /\ pc \in {"start", "send"} \/ (pc = "finish" /\ pc' = "join")
      /\ pc' \in {"send", "build"} => batch <= Len(Batches)
  <2>1. CASE StartPublication
    <3>1. \/ publisher' = publisher
          \/ /\ publisher' = [NoPublisher EXCEPT !.state = "top", !.required = required]
             /\ publisher.state = "none"
          \/ publisher' = [publisher EXCEPT !.full = FALSE, !.update = {}]
      BY <2>1 DEF StartPublication, Become, OfferPlan
    <3>2. publisher \in PublisherType
      BY DEF TypeOK, PublisherType
    <3>3. pc = "start" /\ (pc' \in {"send", "build"} => batch <= Len(Batches))
      BY <2>1 DEF StartPublication, Leave
    <3> QED BY <1>2, <3>1, <3>2, <3>3, PublisherFacts
  <2>2. CASE SendPlan
    <3>1. publisher' = [publisher EXCEPT !.full = TRUE, !.update = required]
          /\ pc = "send" /\ pc' = "build"
      BY <2>2 DEF SendPlan, Become
    <3>2. batch <= Len(Batches)
      BY <3>1 DEF Turns, OfPool, OfBatches
    <3> QED BY <1>2, <3>1, <3>2, PublisherFacts
  <2>3. CASE Finish
    <3>1. publisher' = [publisher EXCEPT !.stop = TRUE] /\ pc = "finish" /\ pc' = "join"
      BY <2>3 DEF Finish, Become
    <3> QED BY <1>2, <3>1, PublisherFacts
  <2> QED BY <2>1, <2>2, <2>3
<1>4. TypeOK'
  BY <1>1, <1>3 DEF TypeOK, PublisherType, storeVars, attemptVars, registryVars
<1>5. pool # "none" => pc' = "join"
  BY <1>3 DEF Turns, OfBatches
<1>6. Turns'
  BY <1>1, <1>3, <1>5
  DEF Turns, attemptVars, Calling, OfBatches, OfPool, Reclaiming, NoPublisher
<1>7. deleted' \subseteq head.paths
  BY <1>1 DEF Chain, storeVars
<1> QED BY <1>1, <1>4, <1>6, <1>7, NoCallStep DEF attemptVars, registryVars

LEMMA BuildSteps ==
  ASSUME LiveInv, BuildBatch \/ ResolveBatch \/ PoolBuilds
  PROVE  LiveInv'
<1> USE DEF LiveInv
<1>1. /\ UNCHANGED <<batch, result, deleted, attemptVars, publisher, delta, calls, live,
                     registryVars>>
      /\ \/ pc' = pc
         \/ pc \in {"build", "resolve"} /\ pc' \in {"resolve", "disk", "finish"}
      /\ failure' \in BOOLEAN
  BY DEF BuildBatch, ResolveBatch, PoolBuilds, Leave, TypeOK, storeVars, mainVars
<1>2. local \in SUBSET Outputs /\ required \in SUBSET Outputs
        /\ batch \in 1..(Len(Batches) + 1) /\ exit \in BOOLEAN
  BY DEF TypeOK
<1>3. local' \in SUBSET Outputs /\ required' \in SUBSET Outputs /\ exit' \in BOOLEAN
  <2>1. CASE BuildBatch
    <3>1. pc = "build" /\ required' = required
      BY <2>1 DEF BuildBatch
    <3>2. batch \in 1..Len(Batches)
      <4>1. batch <= Len(Batches)
        BY <3>1 DEF Turns, OfBatches
      <4> QED BY <1>2, <4>1, LivePublicationAssumption
    <3>3. Batches[batch] \in SUBSET Outputs
      BY <3>2, LivePublicationAssumption
    <3>4. \/ /\ \E B \in SUBSET Batches[batch] : local' = local \cup B
             /\ exit' \in BOOLEAN
          \/ local' = local /\ exit' = exit
      BY <1>2, <2>1 DEF BuildBatch
    <3> QED BY <1>2, <3>1, <3>3, <3>4
  <2>2. CASE ResolveBatch
    BY <1>2, <2>2 DEF ResolveBatch, Resolving
  <2>3. CASE PoolBuilds
    BY <1>2, <2>3 DEF PoolBuilds, mainVars
  <2> QED BY <2>1, <2>2, <2>3
<1>4. TypeOK'
  BY <1>1, <1>3 DEF TypeOK, attemptVars, registryVars
<1>5. Turns'
  BY <1>1 DEF Turns, attemptVars, Calling, OfBatches, OfPool, Reclaiming
<1>6. deleted' \subseteq head.paths
  BY <1>1 DEF Chain
<1> QED BY <1>1, <1>4, <1>5, <1>6, NoCallStep DEF attemptVars, registryVars

\* On from a disk that has room, and giving up.
LEMMA ProceedFacts ==
  ASSUME LiveInv, pc \in Reclaiming, Proceed, pool' = pool
  PROVE  /\ batch' \in 1..(Len(Batches) + 1)
         /\ pool = "none" => pc' = "start"
         /\ pool # "none" => pc' \in {"pool", "finish"}
<1>1. batch \in 1..(Len(Batches) + 1) /\ pool \in {"none", "building", "ended"}
        /\ Len(Batches) \in Nat
  BY LivePublicationAssumption DEF LiveInv, TypeOK
<1>2. pool = "none" => batch <= Len(Batches)
  BY DEF LiveInv, Turns
<1>3. /\ pool = "none" => pc' = "start" /\ batch' = batch + 1
      /\ pool = "building" => pc' = "pool" /\ batch' = batch
      /\ pool = "ended" => pc' = "finish" /\ batch' = batch
  BY DEF Proceed
<1> QED BY <1>1, <1>2, <1>3

LEMMA GiveUpFacts ==
  ASSUME TypeOK, GiveUp
  PROVE  /\ pc' = "finish" /\ failure' = TRUE
         /\ live' \in LiveType
         /\ pool = "none" => live' = live
         /\ pool # "none" =>
              /\ live'.content = live.content /\ live'.published = live.published
              /\ live'.failed
<1>1. live \in LiveType
  BY DEF TypeOK, LiveType
<1>2. live' = [live EXCEPT !.failed = live.failed \/ pool # "none"]
  BY DEF GiveUp
<1>3. pool = "none" => live' = [live EXCEPT !.failed = live.failed]
  BY <1>1, <1>2 DEF LiveType
<1>4. pool # "none" => live' = [live EXCEPT !.failed = TRUE]
  BY <1>2
<1> QED BY <1>1, <1>3, <1>4 DEF GiveUp, Leave, LiveType

\* Nobody is inside a publication when the publisher is joined or was never there.
LEMMA NobodyInside ==
  ASSUME LiveInv,
         publisher.state # "publishing",
         pc \notin Calling \/ calls["main"].step = "return"
  PROVE  \A w \in Callers : calls[w].step \notin Inside
<1>1. calls["background"] = NoCall /\ (calls["main"] = NoCall \/ calls["main"].step = "return")
  BY DEF LiveInv, Turns
<1> QED BY <1>1 DEF Callers, NoCall, Inside

LEMMA CheckDiskStep ==
  ASSUME LiveInv, CheckDisk
  PROVE  LiveInv'
<1> USE DEF LiveInv
<1>1. /\ pc = "disk"
      /\ UNCHANGED <<exit, result, storeVars, attemptVars, delta, calls, registryVars>>
  BY DEF CheckDisk
<1>2. \/ Proceed /\ UNCHANGED <<failure, publisher, live>>
      \/ GiveUp /\ UNCHANGED <<batch, publisher>>
      \/ /\ pc' = "wait" /\ publisher' = [publisher EXCEPT !.stop = TRUE]
         /\ UNCHANGED <<batch, failure, live>>
  BY DEF CheckDisk, Become
<1>3. pool' = pool /\ pc \in Reclaiming /\ pc \notin Calling /\ result = "none"
  BY <1>1 DEF attemptVars, Reclaiming, Calling, Turns, TypeOK
<1>4. live' \in LiveType /\ publisher' \in PublisherType
        /\ publisher'.state = publisher.state
        /\ batch' \in 1..(Len(Batches) + 1) /\ failure' \in BOOLEAN
  <2>1. /\ live \in LiveType /\ publisher \in PublisherType /\ failure \in BOOLEAN
        /\ batch \in 1..(Len(Batches) + 1)
    BY DEF TypeOK, LiveType, PublisherType
  <2>2. live' \in LiveType /\ failure' \in BOOLEAN
    BY <1>2, <2>1, GiveUpFacts
  <2>3. publisher' \in PublisherType /\ publisher'.state = publisher.state
    BY <1>2, <2>1, PublisherFacts DEF GiveUp
  <2>4. batch' \in 1..(Len(Batches) + 1)
    BY <1>2, <1>3, <2>1, ProceedFacts
  <2> QED BY <2>2, <2>3, <2>4
<1>5. /\ pc' \in {"start", "pool", "finish", "wait"}
      /\ pc' = "start" => pool = "none"
      /\ pc' = "pool" => pool # "none"
      /\ pc' # "wait" => publisher' = publisher
      /\ pc' = "wait" => batch' = batch
  BY <1>2, <1>3, ProceedFacts, GiveUpFacts DEF TypeOK
<1>6. TypeOK'
  BY <1>1, <1>4, <1>5 DEF TypeOK, PublisherType, LiveType, storeVars, attemptVars,
                          registryVars
<1>7. Turns'
  BY <1>1, <1>3, <1>4, <1>5
  DEF Turns, Calling, OfBatches, OfPool, Reclaiming
<1>8. \/ live' = live
      \/ /\ live'.content = live.content /\ live'.published = live.published
         /\ live'.failed /\ \A w \in Callers : calls[w].step \notin Inside
  <2>1. CASE pool = "none"
    BY <1>2, <2>1, GiveUpFacts
  <2>2. CASE pool # "none"
    <3>1. publisher.state # "publishing"
      BY <1>1, <2>2 DEF Turns, NoPublisher
    <3> QED BY <1>2, <1>3, <2>2, <3>1, GiveUpFacts, NobodyInside
  <2> QED BY <2>1, <2>2
<1>9. Recorded' /\ deleted' \subseteq head.paths
  BY <1>1, <1>3 DEF Recorded, Chain, storeVars
<1> QED BY <1>1, <1>5, <1>6, <1>7, <1>8, <1>9, QuietStep DEF attemptVars, registryVars

LEMMA ReclaimStep ==
  ASSUME LiveInv, Reclaim
  PROVE  LiveInv'
<1> USE DEF LiveInv
<1>1. /\ pc = "reclaim"
      /\ UNCHANGED <<exit, result, required, attemptVars, delta, publisher, calls,
                     registryVars>>
      /\ \/ Proceed /\ UNCHANGED <<failure, live>>
         \/ GiveUp /\ UNCHANGED batch
  BY DEF Reclaim
<1>2. pool' = pool /\ pc \in Reclaiming /\ pc \notin Calling /\ result = "none"
        /\ publisher = NoPublisher
  BY <1>1 DEF attemptVars, Reclaiming, Calling, Turns, TypeOK
<1>3. /\ local' \in SUBSET Outputs /\ deleted' \in SUBSET Outputs
      /\ deleted' \subseteq head.paths
  <2>1. PICK D \in SUBSET (local \cap (parent \cup delta)) :
          local' = local \ D /\ deleted' = deleted \cup D
    BY DEF Reclaim
  <2>2. delta \subseteq head.paths
    BY <1>1 DEF Saved
  <2> QED BY <2>1, <2>2 DEF TypeOK, Chain
<1>4. live' \in LiveType
        /\ batch' \in 1..(Len(Batches) + 1) /\ failure' \in BOOLEAN
  BY <1>1, <1>2, ProceedFacts, GiveUpFacts DEF TypeOK, LiveType
<1>5. /\ pc' \in {"start", "pool", "finish"}
      /\ pc' = "start" => pool = "none"
      /\ pc' = "pool" => pool # "none"
  BY <1>1, <1>2, ProceedFacts, GiveUpFacts DEF TypeOK
<1>6. TypeOK'
  BY <1>1, <1>3, <1>4, <1>5 DEF TypeOK, LiveType, attemptVars, registryVars
<1>7. Turns'
  BY <1>1, <1>2, <1>5 DEF Turns, Calling, OfBatches, OfPool, Reclaiming
<1>8. \/ live' = live
      \/ /\ live'.content = live.content /\ live'.published = live.published
         /\ live'.failed /\ \A w \in Callers : calls[w].step \notin Inside
  <2>1. publisher.state # "publishing"
    BY <1>2 DEF NoPublisher
  <2> QED BY <1>1, <1>2, <2>1, GiveUpFacts, NobodyInside
<1>9. Recorded'
  BY <1>1, <1>2 DEF Recorded
<1> QED BY <1>1, <1>3, <1>5, <1>6, <1>7, <1>8, <1>9, QuietStep DEF attemptVars, registryVars

\* execute enters a publication, or leaves one.
LEMMA MainCallStep ==
  ASSUME LiveInv,
         UNCHANGED <<batch, exit, local, deleted, attempt, parent, collected, delta, head,
                     generations>>,
         required' \in SUBSET Outputs, failure' \in BOOLEAN,
         pool' = pool \/ (pool # "none" /\ pool' = "ended"),
         NEW c \in Call \cup {NoCall}, calls' = [calls EXCEPT !["main"] = c],
         c = NoCall \/ (c.step = "select" /\ c.status = "none"),
         pc \notin Calling \/ calls["main"].step = "return",
         publisher.state # "publishing", publisher' = NoPublisher,
         live' \in LiveType,
         \/ live' = live
         \/ live'.content = live.content /\ live'.published = live.published
              /\ live'.failed,
         pc' \in {"published", "refresh", "final", "finish", "reclaim", "disk", "returned"},
         c # NoCall <=> pc' \in {"published", "refresh", "final"},
         pc' \in {"published", "final"} => c.force,
         pc' \in {"disk", "refresh"} => pool' # "none",
         pc' \in {"published", "reclaim"} => (pool = "none" => batch <= Len(Batches)),
         pc' = "reclaim" => delta \subseteq head.paths,
         pc' # "returned" => result' = "none",
         result' \in {"none", "success", "failure", "error"},
         Recorded'
  PROVE  LiveInv'
<1> USE DEF LiveInv
<1>1. \A w \in Callers : calls[w].step \notin Inside
  BY NobodyInside
<1>2. /\ calls \in [Callers -> Call \cup {NoCall}] /\ "main" \in Callers
      /\ "background" \in Callers
      /\ \A w \in Callers : w \in {"main", "background"}
  BY DEF TypeOK, Callers
<1>3. /\ calls' \in [Callers -> Call \cup {NoCall}]
      /\ calls'["main"] = c /\ calls'["background"] = calls["background"]
  BY <1>2
<1>4. calls["background"] = NoCall /\ NoPublisher.state = "none"
        /\ NoPublisher \in PublisherType
  BY PublisherFacts DEF Turns
<1>5. pool' \in {"none", "building", "ended"}
  BY DEF TypeOK
<1>6. TypeOK'
  BY <1>3, <1>4, <1>5 DEF TypeOK, PublisherType, LiveType
<1>7. Turns'
  BY <1>3, <1>4 DEF Turns, Calling, OfBatches, OfPool, Reclaiming
<1>8. deleted' \subseteq head.paths
  BY DEF Chain
<1>9. \A w \in Callers :
        \/ calls'[w] = calls[w]
        \/ /\ calls[w].step \notin Inside
           /\ calls'[w] = NoCall \/ (calls'[w].step = "select" /\ calls'[w].status = "none")
  BY <1>1, <1>2, <1>3
<1> QED BY <1>1, <1>6, <1>7, <1>8, <1>9, QuietStep

LEMMA CollectSteps ==
  ASSUME LiveInv, PublishBeforeReclaim \/ PoolRefresh \/ PoolEnds \/ FinalPublication
  PROVE  LiveInv'
<1> USE DEF LiveInv
<1>1. /\ UNCHANGED <<batch, exit, result, local, deleted, attempt, parent, collected,
                     delta, registryVars>>
      /\ pool' = pool \/ (pool = "building" /\ pool' = "ended")
      /\ result = "none"
  <2>1. pc \in {"wait", "pool", "join"}
    BY DEF PublishBeforeReclaim, PoolRefresh, PoolEnds, FinalPublication
  <2>2. result = "none"
    BY <2>1 DEF Turns, TypeOK
  <2> QED BY <2>2 DEF PublishBeforeReclaim, PoolRefresh, PoolEnds, FinalPublication,
                      storeVars, attemptVars
<1>2. Recorded'
  BY <1>1 DEF Recorded
<1>3. /\ calls \in [Callers -> Call \cup {NoCall}] /\ "main" \in Callers
      /\ required \in SUBSET Outputs /\ local \in SUBSET Outputs
      /\ failure \in BOOLEAN /\ publisher.err \in BOOLEAN
      /\ live \in LiveType
  BY DEF TypeOK, LiveType, Callers
<1>4. CASE PublishBeforeReclaim /\ publisher.err
  <2>1. /\ pc = "wait" /\ publisher.state # "publishing" /\ publisher' = NoPublisher
        /\ GiveUp /\ UNCHANGED calls /\ UNCHANGED <<required, attemptVars>>
    BY <1>4 DEF PublishBeforeReclaim, Joined, storeVars
  <2>2. calls["main"] = NoCall
    BY <2>1 DEF Turns, Calling
  <2>3. calls' = [calls EXCEPT !["main"] = NoCall]
    BY <1>3, <2>1, <2>2
  <2> QED BY <1>1, <1>2, <1>3, <2>1, <2>3, GiveUpFacts, MainCallStep
          DEF Calling, attemptVars, registryVars
<1>5. ASSUME NEW force \in BOOLEAN, NEW S \in SUBSET Outputs,
             calls' = [calls EXCEPT !["main"] = Entering(S, force)],
             required' = S, live' = live, failure' \in BOOLEAN,
             publisher.state # "publishing", publisher' = NoPublisher,
             pc \notin Calling,
             \/ pc' = "published" /\ force /\ (pool = "none" => batch <= Len(Batches))
             \/ pc' = "final" /\ force
             \/ pc' = "refresh" /\ pool # "none"
      PROVE  LiveInv'
  <2> DEFINE c == Entering(S, force)
  <2>1. c \in Call /\ c.step = "select" /\ c.status = "none" /\ c.force = force
    BY EnteringFacts
  <2> HIDE DEF c
  <2>2. c \in Call \cup {NoCall} /\ c # NoCall
    BY <2>1, <1>3, CallFacts
  <2>3. calls' = [calls EXCEPT !["main"] = c]
    BY <1>5 DEF c
  <2> QED BY <1>1, <1>2, <1>3, <1>5, <2>1, <2>2, <2>3, MainCallStep DEF registryVars
<1>6. CASE PublishBeforeReclaim /\ ~publisher.err
  <2>1. /\ pc = "wait" /\ publisher.state # "publishing" /\ publisher' = NoPublisher
        /\ calls' = [calls EXCEPT !["main"] = Entering(required, TRUE)]
        /\ pc' = "published" /\ UNCHANGED <<failure, live, required, pool>>
    BY <1>6 DEF PublishBeforeReclaim, Joined, storeVars, attemptVars, Set
  <2>2. (pool = "none" => batch <= Len(Batches)) /\ pc \notin Calling
    BY <2>1 DEF Turns, Reclaiming, Calling
  <2> QED BY <1>3, <1>5, <2>1, <2>2
<1>7. CASE PoolRefresh \/ PoolEnds
  <2>1. /\ pc = "pool" /\ pool = "building" /\ pc' = "refresh"
        /\ \E force \in BOOLEAN :
             calls' = [calls EXCEPT !["main"] = Entering(required, force)]
        /\ UNCHANGED <<live, required, publisher>> /\ failure' \in BOOLEAN
    BY <1>3, <1>7 DEF PoolRefresh, PoolEnds, storeVars, Set
  <2>2. publisher = NoPublisher /\ NoPublisher.state = "none" /\ pc \notin Calling
    BY <2>1 DEF Turns, NoPublisher, Calling
  <2> QED BY <1>3, <1>5, <2>1, <2>2
<1>8. CASE FinalPublication
  <2>1. /\ pc = "join" /\ publisher.state # "publishing" /\ publisher' = NoPublisher
        /\ required' \in SUBSET Outputs
        /\ calls' = [calls EXCEPT !["main"] = Entering(required', TRUE)]
        /\ pc' = "final" /\ live' = live /\ failure' \in BOOLEAN
    BY <1>3, <1>8 DEF FinalPublication, Joined, Resolving, Set
  <2>2. PICK S \in SUBSET Outputs : S = required'
    BY <2>1
  <2>3. calls' = [calls EXCEPT !["main"] = Entering(S, TRUE)]
    BY <2>1, <2>2
  <2> QED BY <1>5, <2>1, <2>2, <2>3 DEF Calling
<1> QED BY <1>4, <1>6, <1>7, <1>8

LEMMA LeaveSteps ==
  ASSUME LiveInv, PublishedBeforeReclaim \/ PoolRefreshed \/ ReturnResult
  PROVE  LiveInv'
<1> USE DEF LiveInv
<1>1. /\ UNCHANGED <<batch, exit, storeVars, attemptVars, delta, publisher, registryVars>>
      /\ calls' = [calls EXCEPT !["main"] = NoCall]
      /\ calls["main"].step = "return"
      /\ pc \in Calling
  BY DEF PublishedBeforeReclaim, PoolRefreshed, ReturnResult, At, Set, Calling
<1>2. /\ calls["main"] \in Call /\ calls["main"] # NoCall /\ "main" \in Callers
      /\ live \in LiveType /\ failure \in BOOLEAN
      /\ required \in SUBSET Outputs
  BY <1>1, CallFacts DEF TypeOK, LiveType, Callers
<1>3. publisher' = NoPublisher /\ publisher.state = "none" /\ result = "none"
  BY <1>1, <1>2, OneCall DEF Turns, NoPublisher
<1>4. CallSaves("main")
  BY <1>2 DEF Saved
<1>5. CASE PublishedBeforeReclaim
  <2>1. /\ pc = "published" /\ result' = result
        /\ \/ GiveUp
           \/ /\ ~calls["main"].err /\ pc' = "reclaim"
              /\ UNCHANGED <<failure, live>>
    BY <1>5 DEF PublishedBeforeReclaim
  <2>2. calls["main"].force /\ (pool = "none" => batch <= Len(Batches))
    BY <2>1 DEF Turns, Reclaiming
  <2>3. pc' = "reclaim" => delta \subseteq head.paths
    BY <1>1, <1>4, <2>1, <2>2, GiveUpFacts DEF CallSaves
  <2>4. Recorded'
    BY <1>3, <2>1 DEF Recorded
  <2> QED BY <1>1, <1>2, <1>3, <2>1, <2>2, <2>3, <2>4, GiveUpFacts, MainCallStep
          DEF storeVars, attemptVars, registryVars
<1>6. CASE PoolRefreshed
  <2>1. /\ pc = "refresh" /\ result' = result
        /\ \/ GiveUp
           \/ pc' = "disk" /\ UNCHANGED <<failure, live>>
    BY <1>6 DEF PoolRefreshed
  <2>2. pool # "none"
    BY <2>1 DEF Turns, OfPool
  <2>3. Recorded'
    BY <1>3, <2>1 DEF Recorded
  <2> QED BY <1>1, <1>2, <1>3, <2>1, <2>2, <2>3, GiveUpFacts, MainCallStep
          DEF storeVars, attemptVars, registryVars
<1>7. CASE ReturnResult
  <2>1. /\ pc = "terminal" /\ pc' = "returned" /\ UNCHANGED <<failure, live>>
        /\ result' = IF calls["main"].err THEN "error" ELSE calls["main"].status
    BY <1>7 DEF ReturnResult
  <2>2. calls["main"].force
    BY <2>1 DEF Turns
  <2>3. calls["main"].status \in {"none", "success", "failure"}
    BY <1>2 DEF Call
  <2>4. ~calls["main"].err =>
          /\ calls["main"].status # "none"
          /\ <<attempt, calls["main"].status>> \in head.results
          /\ delta \subseteq head.paths
    BY <1>1, <1>4, <2>1, <2>2 DEF Saved, CallSaves, Tagged
  <2>5. result' \in {"success", "failure", "error"}
    BY <2>1, <2>3, <2>4
  <2>6. Recorded'
    BY <1>1, <2>1, <2>4 DEF Recorded, attemptVars, registryVars
  <2> QED BY <1>1, <1>2, <1>3, <2>1, <2>5, <2>6, MainCallStep
          DEF storeVars, attemptVars, registryVars
<1> QED BY <1>5, <1>6, <1>7

\* The result is recorded in a publication of its own, by a call that goes on.
LEMMA RecordStep ==
  ASSUME LiveInv, RecordResult
  PROVE  LiveInv'
<1> USE DEF LiveInv
<1>1. /\ pc = "final" /\ pc' = "terminal" /\ calls["main"].step = "return"
      /\ UNCHANGED <<batch, exit, result, storeVars, attempt, pool, parent, delta,
                     publisher, live, registryVars>>
      /\ failure' \in BOOLEAN
  BY DEF RecordResult, At, TypeOK, Call
<1>0. collected' \in BOOLEAN
  BY DEF RecordResult
<1>2. /\ calls["main"] \in Call /\ calls["main"] # NoCall /\ "main" \in Callers
      /\ calls \in [Callers -> Call \cup {NoCall}]
      /\ required \in SUBSET Outputs /\ result = "none"
      /\ publisher = NoPublisher /\ calls["background"] = NoCall
      /\ calls["main"].force
  <2>1. calls["main"] \in Call /\ calls["main"] # NoCall /\ "main" \in Callers
    BY <1>1, CallFacts DEF Callers
  <2>2. publisher = NoPublisher /\ calls["main"].force /\ result = "none"
    BY <1>1, <2>1, OneCall DEF Turns, Calling
  <2>3. calls["background"] = NoCall
    BY <2>1, OneCall DEF Callers
  <2> QED BY <2>1, <2>2, <2>3 DEF TypeOK
<1>3. PICK c \in Call :
        /\ calls' = [calls EXCEPT !["main"] = c] /\ c.force
        /\ \/ c.step = "return" /\ c.err /\ c.status = calls["main"].status
           \/ /\ ~live.failed /\ c.step = "tag"
              /\ c.status = "failure" \/ (c.status = "success" /\ Complete(failure'))
  <2>1. CASE Return("main", TRUE)
    <3> DEFINE c == [calls["main"] EXCEPT !.step = "return", !.err = TRUE]
    <3>1. /\ c \in Call /\ c.force /\ c.step = "return" /\ c.err
          /\ c.status = calls["main"].status
      BY <1>2 DEF Call
    <3>2. calls' = [calls EXCEPT !["main"] = c]
      BY <2>1 DEF Return, Set
    <3> HIDE DEF c
    <3> QED BY <2>1, <3>1, <3>2
  <2>2. CASE ~Return("main", TRUE)
    <3> DEFINE s == IF Complete(failure') THEN "success" ELSE "failure"
               e == Entering(required, TRUE)
               c == [e EXCEPT !.step = "tag", !.status = s]
    <3>1. calls' = [calls EXCEPT !["main"] = c] /\ ~live.failed
      BY <2>2 DEF RecordResult, Set
    <3>2. s \in {"success", "failure"} /\ (s = "success" => Complete(failure'))
      OBVIOUS
    <3>3. e \in Call /\ e.force
      BY <1>2, EnteringFacts
    <3> HIDE DEF s, e
    <3>4. c \in Call /\ c.force /\ c.step = "tag" /\ c.status = s
      BY <3>2, <3>3 DEF Call
    <3> HIDE DEF c
    <3> QED BY <2>2, <3>1, <3>2, <3>4
  <2> QED BY <2>1, <2>2
<1>4. /\ calls' \in [Callers -> Call \cup {NoCall}] /\ calls'["main"] = c
      /\ calls'["background"] = NoCall /\ c # NoCall
      /\ \A w \in Callers : w = "main" \/ w = "background"
  BY <1>2, <1>3, CallFacts DEF Callers
<1>5. TypeOK'
  BY <1>0, <1>1, <1>4 DEF TypeOK, storeVars, registryVars
<1>6. Turns'
  BY <1>1, <1>2, <1>3, <1>4
  DEF Turns, Calling, OfBatches, OfPool, Reclaiming
<1>7. Complete(failure') => Outputs \subseteq parent \cup delta
  BY DEF Complete
<1>8. CallSaves("main") /\ NoCall.step = "idle" /\ GenerationTag' = GenerationTag
  BY <1>1, <1>2 DEF Saved, NoCall, GenerationTag
<1>9. ASSUME NEW w \in Callers PROVE CallSaves(w)'
  <2>1. CASE w = "background"
    BY <1>4, <1>8, <2>1 DEF CallSaves, Inside
  <2>2. CASE w = "main"
    BY <1>1, <1>2, <1>3, <1>4, <1>7, <1>8, <2>2
    DEF CallSaves, Inside, registryVars
  <2> QED BY <1>4, <2>1, <2>2
<1>10. ~live'.failed => delta' \subseteq head'.paths \/ Marked'
  <2>1. \A w \in Callers : calls[w].step \notin {"flush", "tag", "head"}
    BY <1>1, <1>2, <1>4, <1>8
  <2>2. ~live.failed => delta \subseteq head.paths \/ live.dirty
    BY <2>1 DEF Saved, Marked
  <2> QED BY <1>1, <2>2 DEF Marked, registryVars
<1>11. Recorded'
  BY <1>1, <1>2 DEF Recorded
<1>12. Saved'
  BY <1>1, <1>3, <1>4, <1>9, <1>10, <1>11 DEF Saved
<1>13. \A w \in Callers : calls[w].step # "head"
  BY <1>1, <1>2, <1>4, <1>8
<1>14. Chain' /\ TagsUsed' /\ Truthful(head)' /\ Truthful(live.content)'
  BY <1>1, <1>8, <1>13
  DEF Chain, TagsUsed, Truthful, registryVars, storeVars
<1> QED BY <1>5, <1>6, <1>12, <1>14

(***************************************************************************)
(* Beginnings.                                                             *)
(***************************************************************************)
\* An attempt begins with what the head covers and with tags of its own.
LEMMA BeginningHolds ==
  ASSUME pool' \in {"none", "building"},
         pc' = Beginning(pool'), required' = Required0(pool'),
         attempt' \in 1..MaxAttempts, batch' = 1, parent' = head'.paths,
         local' = {}, deleted' = {}, exit' = FALSE, delta' = {}, failure' = FALSE,
         result' = "none", collected' = FALSE, publisher' = NoPublisher,
         calls' = [w \in Callers |-> NoCall], live' = NewLive(head'),
         head' \in Content, Truthful(head)',
         DOMAIN generations' \subseteq (1..MaxAttempts) \X Nat,
         \A g \in DOMAIN generations' :
           generations'[g] \in Content /\ g[1] < attempt'
  PROVE  LiveInv'
<1>1. /\ live' \in LiveType /\ live'.content = head' /\ ~live'.failed
      /\ live'.published = 0
  BY DEF NewLive, LiveType
<1>2. /\ calls' \in [Callers -> Call \cup {NoCall}]
      /\ \A w \in Callers : calls'[w] = NoCall /\ calls'[w].step = "idle"
      /\ "main" \in Callers /\ "background" \in Callers
  BY DEF NoCall, Callers
<1>3. publisher' \in PublisherType /\ publisher'.state = "none"
  BY DEF NoPublisher, PublisherType
<1>4. required' \in SUBSET Outputs /\ pc' \in {"start", "pool"}
        /\ (pc' = "start" <=> pool' = "none")
  BY LivePublicationAssumption DEF Required0, Beginning
<1>5. batch' \in 1..(Len(Batches) + 1) /\ head'.paths \in SUBSET Outputs
  BY LivePublicationAssumption DEF Content
<1>6. TypeOK'
  BY <1>1, <1>2, <1>3, <1>4, <1>5 DEF TypeOK, LiveType, PublisherType
<1>7. Turns'
  BY <1>2, <1>3, <1>4 DEF Turns, Calling, OfBatches, OfPool, Reclaiming
<1>8. Chain' /\ Truthful(live.content)'
  BY <1>1 DEF Chain, Truthful
<1>9. Saved'
  BY <1>2, <1>4 DEF Saved, CallSaves, Inside, Recorded
<1>10. TagsUsed'
  <2>1. \A g \in DOMAIN generations' : g[1] \in 1..MaxAttempts
    OBVIOUS
  <2> QED BY <2>1 DEF TagsUsed
<1> QED BY <1>6, <1>7, <1>8, <1>9, <1>10 DEF LiveInv

LEMMA RestartStep ==
  ASSUME LiveInv, Restart
  PROVE  LiveInv'
<1> USE DEF LiveInv
<1>1. /\ attempt < MaxAttempts /\ attempt' = attempt + 1
      /\ head' = head /\ generations' = generations /\ parent' = head'.paths
      /\ live' = NewLive(head') /\ pool' \in {"none", "building"}
  BY DEF Restart, registryVars
<1>2. attempt \in 1..MaxAttempts /\ attempt' \in 1..MaxAttempts /\ head' \in Content
        /\ DOMAIN generations' \subseteq (1..MaxAttempts) \X Nat
        /\ \A g \in DOMAIN generations' : generations'[g] \in Content
  BY <1>1, LivePublicationAssumption DEF TypeOK
<1>3. \A g \in DOMAIN generations' : g[1] < attempt'
  <2> TAKE g \in DOMAIN generations'
  <2>1. g[1] \in 1..MaxAttempts /\ g[1] <= attempt
    BY <1>1, <1>2 DEF TagsUsed
  <2> QED BY <1>1, <1>2, <2>1
<1>4. Truthful(head)'
  BY <1>1 DEF Truthful
<1> QED BY <1>1, <1>2, <1>3, <1>4, BeginningHolds DEF Restart

LEMMA LiveInitInv == Init => LiveInv
<1> SUFFICES ASSUME Init PROVE LiveInv
  OBVIOUS
<1>1. Empty \in Content /\ Empty.paths = {} /\ Empty.results = {}
  BY DEF Empty, Content
<1>2. /\ live \in LiveType /\ live.content = Empty /\ ~live.failed
      /\ live.published = 0
  BY <1>1 DEF Init, NewLive, LiveType
<1>3. /\ calls \in [Callers -> Call \cup {NoCall}]
      /\ \A w \in Callers : calls[w] = NoCall /\ calls[w].step = "idle"
      /\ "main" \in Callers /\ "background" \in Callers
  BY DEF Init, NoCall, Callers
<1>4. publisher \in PublisherType /\ publisher.state = "none"
  BY DEF Init, NoPublisher, PublisherType
<1>5. required \in SUBSET Outputs /\ pc \in {"start", "pool"}
        /\ (pc = "start" <=> pool = "none")
  BY LivePublicationAssumption DEF Init, Required0, Beginning
<1>6. batch \in 1..(Len(Batches) + 1) /\ attempt \in 1..MaxAttempts
  BY LivePublicationAssumption DEF Init
<1>7. DOMAIN generations = {}
  BY DEF Init
<1>8. TypeOK
  BY <1>1, <1>2, <1>3, <1>4, <1>5, <1>6, <1>7 DEF Init, TypeOK, LiveType, PublisherType
<1>9. Turns
  BY <1>3, <1>4, <1>5 DEF Init, Turns, Calling, OfBatches, OfPool, Reclaiming
<1>10. Chain /\ Truthful(head) /\ Truthful(live.content)
  BY <1>1, <1>2 DEF Init, Chain, Truthful
<1>11. Saved /\ TagsUsed
  BY <1>3, <1>5, <1>7 DEF Init, Saved, CallSaves, Inside, Recorded, TagsUsed
<1> QED BY <1>8, <1>9, <1>10, <1>11 DEF LiveInv

(***************************************************************************)
(* Every step, and the theorems.                                           *)
(***************************************************************************)
LEMMA LiveStep == LiveInv /\ [Next]_vars => LiveInv'
<1> SUFFICES ASSUME LiveInv, [Next]_vars PROVE LiveInv'
  OBVIOUS
<1>1. CASE UNCHANGED vars \/ Returned
  <2>1. UNCHANGED vars
    BY <1>1 DEF Returned
  <2>2. UNCHANGED <<pc, batch, exit, failure, result, local, deleted, required, attempt,
                    pool, parent, collected, delta, publisher, calls, live, generations,
                    head>>
    BY <2>1 DEF vars, mainVars, storeVars, attemptVars, registryVars
  <2>3. TypeOK'
    BY <2>2 DEF LiveInv, TypeOK
  <2>4. Turns'
    BY <2>2 DEF LiveInv, Turns
  <2>5. deleted' \subseteq head.paths
    BY <2>2 DEF LiveInv, Chain
  <2> QED BY <2>2, <2>3, <2>4, <2>5, NoCallStep
<1>2. CASE \E w \in Callers : Publication(w)
  BY <1>2, PublicationSaves
<1>3. CASE Background
  BY <1>3, PublisherSteps, PublicationSaves DEF Background, Callers
<1>4. CASE Main
  BY <1>4, BatchSteps, BuildSteps, CheckDiskStep, ReclaimStep, CollectSteps, LeaveSteps,
     RecordStep, PublicationSaves
  DEF Main, Callers
<1>5. CASE PoolBuilds
  BY <1>5, BuildSteps
<1>6. CASE Restart
  BY <1>6, RestartStep
<1> QED BY <1>1, <1>3, <1>4, <1>5, <1>6 DEF Next

LEMMA LiveInvariant == Spec => []LiveInv
  BY LiveInitInv, LiveStep, PTL DEF Spec

\* execute, its publisher goroutine and the registry keep their types.
THEOREM PublicationTyped == Spec => []TypeOK
<1>1. LiveInv => TypeOK
  BY DEF LiveInv
<1> QED BY <1>1, LiveInvariant, PTL

\* The delta and the livePublisher have one owner, for any plan and any failures:
\* execute publishes and reclaims only when the publisher goroutine has ended.
THEOREM OwnerAlone == Spec => []SingleOwner
<1>1. LiveInv => SingleOwner
  <2> SUFFICES ASSUME LiveInv, calls["main"] # NoCall \/ pc = "reclaim"
               PROVE  publisher = NoPublisher /\ calls["background"] = NoCall
    BY DEF SingleOwner
  <2>1. publisher = NoPublisher
    BY DEF LiveInv, Turns
  <2> QED BY <2>1 DEF LiveInv, Turns, NoPublisher
<1> QED BY <1>1, LiveInvariant, PTL

\* What Reclaim deletes is behind the platform head, whatever was published, by
\* whom and with what failures before.
THEOREM DeletedIsDurable == Spec => []ReclaimedDurable
<1>1. LiveInv => ReclaimedDurable
  BY DEF LiveInv, Chain, ReclaimedDurable
<1> QED BY <1>1, LiveInvariant, PTL

\* A success recorded behind the head is one whose outputs are all behind it.
THEOREM RecordsAreTrue == Spec => []TruthfulRecord
<1>1. LiveInv => TruthfulRecord
  BY DEF LiveInv, Truthful, TruthfulRecord
<1> QED BY <1>1, LiveInvariant, PTL

(***************************************************************************)
(* What the final collection owes: from the moment execute enters it       *)
(* nothing is built, and an upload covers what was selected.               *)
(***************************************************************************)
Wanted == required \cap local
Covered == delta \cup parent

Gathering(call) ==
  /\ call.required = required
  /\ call.step = "upload" => Wanted \subseteq Covered \cup call.selected
  /\ call.step \in {"flush", "tag", "head", "return"} /\ ~call.err =>
       Wanted \subseteq Covered

Gathered ==
  /\ pc = "final" => Gathering(calls["main"])
  /\ pc \in {"terminal", "returned"} /\ collected => Wanted \subseteq Covered

\* Each step of the final collection.
LEMMA PublicationGathers ==
  ASSUME LiveInv, Gathered, Publication("main"), pc = "final"
  PROVE  Gathering(calls["main"])'
<1>1. /\ UNCHANGED <<required, local, parent>> /\ calls["main"] \in Call
      /\ "main" \in Callers /\ calls \in [Callers -> Call \cup {NoCall}]
  BY PublicationFrame DEF LiveInv, TypeOK, Callers, storeVars, attemptVars
<1>2. Gathering(calls["main"])
  BY DEF Gathered
<1>3. ASSUME NEW c \in Call, Set("main", c)
      PROVE  calls'["main"] = c
  BY <1>1, <1>3 DEF Set
<1>4. CASE Select("main")
  <2>1. delta' = delta /\ calls["main"].required = required
    BY <1>2, <1>4 DEF Select, Gathering
  <2>2. CASE live.failed
    <3> DEFINE c == [calls["main"] EXCEPT !.step = "return", !.err = TRUE]
    <3>1. c \in Call /\ c.required = required /\ c.step = "return" /\ c.err
      BY <1>1, <2>1 DEF Call
    <3>2. Set("main", c)
      BY <1>4, <2>2 DEF Select, Return
    <3> HIDE DEF c
    <3> QED BY <1>1, <1>3, <3>1, <3>2 DEF Gathering
  <2>3. CASE ~live.failed
    <3> DEFINE S == (calls["main"].required \cap local) \ (delta \cup parent)
               c(err) == [calls["main"] EXCEPT
                            !.step = IF err THEN "flush" ELSE "upload", !.err = err,
                            !.before = Cardinality(delta), !.selected = S]
    <3>1. PICK err \in BOOLEAN : Set("main", c(err))
      BY <1>4, <2>3 DEF Select
    <3>2. /\ c(err).required = required /\ c(err).selected = S
          /\ err => c(err).step = "flush" /\ c(err).err
          /\ ~err => c(err).step = "upload"
      BY <1>1, <2>1 DEF Call
    <3>3. calls'["main"] = c(err)
      BY <1>1, <3>1 DEF Set
    <3>4. Wanted \subseteq Covered \cup S
      BY <2>1 DEF Wanted, Covered
    <3> HIDE DEF c, S
    <3> QED BY <1>1, <2>1, <3>2, <3>3, <3>4 DEF Gathering, Wanted, Covered
  <2> QED BY <2>2, <2>3
<1>5. CASE Upload("main")
  <2>1. PICK S \in SUBSET calls["main"].selected :
          /\ delta' = delta \cup S
          /\ Set("main", [calls["main"] EXCEPT !.step = "flush",
                                     !.err = S # calls["main"].selected])
    BY <1>5 DEF Upload
  <2> DEFINE c == [calls["main"] EXCEPT !.step = "flush",
                                        !.err = S # calls["main"].selected]
  <2>2. /\ c \in Call /\ c.required = calls["main"].required /\ c.step = "flush"
        /\ ~c.err => S = calls["main"].selected
    BY <1>1 DEF Call
  <2>3. Set("main", c)
    BY <2>1
  <2> HIDE DEF c
  <2>4. Wanted \subseteq Covered \cup calls["main"].selected
    BY <1>2, <1>5 DEF Gathering, Upload, At
  <2> QED BY <1>1, <1>2, <1>3, <2>1, <2>2, <2>3, <2>4 DEF Gathering, Wanted, Covered
<1>6. CASE Flush("main") \/ Tag("main") \/ AdvanceHead("main")
  <2>1. delta' = delta /\ calls["main"].step \in {"flush", "tag", "head"}
    BY <1>6 DEF Flush, Tag, AdvanceHead, At
  <2>2. \E c \in Call :
          /\ Set("main", c) /\ c.required = calls["main"].required
          /\ c.step # "upload" /\ (~c.err => ~calls["main"].err)
    <3>1. \/ Set("main", [calls["main"] EXCEPT !.step = "tag"])
          \/ Set("main", [calls["main"] EXCEPT !.step = "head"])
          \/ Return("main", calls["main"].err)
          \/ Return("main", TRUE)
      BY <1>6 DEF Flush, Tag, AdvanceHead, Fail
    <3>2. ASSUME NEW t \in {"tag", "head"}, Set("main", [calls["main"] EXCEPT !.step = t])
          PROVE  \E c \in Call :
                   /\ Set("main", c) /\ c.required = calls["main"].required
                   /\ c.step # "upload" /\ (~c.err => ~calls["main"].err)
      <4> DEFINE c == [calls["main"] EXCEPT !.step = t]
      <4>1. /\ c \in Call /\ c.required = calls["main"].required
            /\ c.step # "upload" /\ (~c.err => ~calls["main"].err)
        BY <1>1 DEF Call
      <4> QED BY <3>2, <4>1
    <3>3. ASSUME NEW e \in {TRUE, calls["main"].err}, Return("main", e)
          PROVE  \E c \in Call :
                   /\ Set("main", c) /\ c.required = calls["main"].required
                   /\ c.step # "upload" /\ (~c.err => ~calls["main"].err)
      <4> DEFINE c == [calls["main"] EXCEPT !.step = "return", !.err = e]
      <4>1. /\ c \in Call /\ c.required = calls["main"].required
            /\ c.step # "upload" /\ (~c.err => ~calls["main"].err)
        BY <1>1 DEF Call
      <4> QED BY <3>3, <4>1 DEF Return
    <3> QED BY <3>1, <3>2, <3>3
  <2> QED BY <1>1, <1>2, <1>3, <2>1, <2>2 DEF Gathering, Wanted, Covered
<1> QED BY <1>4, <1>5, <1>6 DEF Publication

LEMMA GatheredStep == LiveInv /\ Gathered /\ [Next]_vars => Gathered'
<1> SUFFICES ASSUME LiveInv, Gathered, [Next]_vars PROVE Gathered'
  OBVIOUS
<1> DEFINE Late == {"final", "terminal", "returned"}
<1>1. CASE pc' \notin Late
  BY <1>1 DEF Gathered
<1>2. CASE Publication("main")
  <2>1. UNCHANGED <<pc, required, local, parent, collected>> /\ "main" \in Callers
    BY <1>2, PublicationFrame
    DEF LiveInv, Callers, mainVars, storeVars, attemptVars
  <2>2. delta \subseteq delta'
    BY <1>2 DEF Publication, Select, Upload, Flush, Tag, AdvanceHead
  <2>3. pc = "final" => Gathering(calls["main"])'
    BY <1>2, PublicationGathers
  <2> QED BY <2>1, <2>2, <2>3 DEF Gathered, Wanted, Covered
<1>3. CASE Background
  <2>1. pc' = pc
    BY <1>3 DEF Background, Publication, Select, Upload, Flush, Tag, AdvanceHead,
                PublisherTop, PublisherPublished, PublisherWaits, mainVars
  <2>2. publisher # NoPublisher
    <3>1. CASE calls["background"].step # "idle"
      <4>1. calls["background"] # NoCall
        BY <3>1 DEF NoCall
      <4>2. publisher.state = "publishing"
        BY <4>1 DEF LiveInv, Turns
      <4> QED BY <4>2 DEF NoPublisher
    <3>2. CASE PublisherTop \/ PublisherWaits
      <4>1. publisher.state \in {"top", "waiting"}
        BY <3>2 DEF PublisherTop, PublisherWaits
      <4>2. NoPublisher.state = "none"
        BY DEF NoPublisher
      <4> QED BY <4>1, <4>2
    <3>3. Publication("background") \/ PublisherPublished =>
            calls["background"].step # "idle"
      BY DEF Publication, Select, Upload, Flush, Tag, AdvanceHead, PublisherPublished, At
    <3> QED BY <1>3, <3>1, <3>2, <3>3 DEF Background
  <2> QED BY <1>1, <2>1, <2>2 DEF LiveInv, Turns, Calling
<1>4. CASE FinalPublication
  <2>1. pc' = "final" /\ calls' = [calls EXCEPT !["main"] = Entering(required', TRUE)]
    BY <1>4 DEF FinalPublication, Set
  <2>2. calls'["main"] = Entering(required', TRUE)
    BY <2>1 DEF LiveInv, TypeOK, Callers
  <2>3. Entering(required', TRUE).step = "select" /\ Entering(required', TRUE).required = required'
    BY DEF Entering
  <2> QED BY <2>1, <2>2, <2>3 DEF Gathered, Gathering
<1>5. CASE RecordResult
  <2>1. /\ pc = "final" /\ pc' = "terminal" /\ calls["main"].step = "return"
        /\ collected' = ~calls["main"].err
        /\ UNCHANGED <<required, local, parent, delta>>
    BY <1>5 DEF RecordResult, At, storeVars
  <2> QED BY <2>1 DEF Gathered, Gathering, Wanted, Covered
<1>6. CASE ReturnResult \/ Returned \/ UNCHANGED vars
  <2>1. /\ UNCHANGED <<required, local, parent, delta, collected>>
        /\ \/ pc = "terminal" /\ pc' = "returned"
           \/ UNCHANGED <<pc, calls>>
    BY <1>6 DEF ReturnResult, At, Returned, vars, mainVars, storeVars, attemptVars
  <2> QED BY <2>1 DEF Gathered, Gathering, Wanted, Covered
<1>7. CASE Main /\ ~Publication("main") /\ ~FinalPublication /\ ~RecordResult
             /\ ~ReturnResult
  <2>1. pc' \notin Late
    BY <1>7 DEF Main, StartPublication, SendPlan, BuildBatch, ResolveBatch, CheckDisk,
      PublishBeforeReclaim, PublishedBeforeReclaim, Reclaim, PoolRefresh, PoolEnds,
      PoolRefreshed, Finish, GiveUp, Leave, Proceed, LiveInv, TypeOK
  <2> QED BY <1>1, <2>1
<1>8. CASE PoolBuilds \/ Restart
  <2>1. pc' \notin Late
    BY <1>8 DEF PoolBuilds, Restart, Beginning, Reclaiming, mainVars
  <2> QED BY <1>1, <2>1
<1> QED BY <1>2, <1>3, <1>4, <1>5, <1>6, <1>7, <1>8 DEF Next

\* execute returns without an error only when its record and all it collected are
\* behind the head; unless the final collection failed, that is all that was built
\* and whose path is known, for any plan and after whatever failed before.
THEOREM ReturnsPublished == Spec => []NothingUnpublished
<1>1. Init => Gathered
  BY DEF Init, Gathered, Beginning
<1>2. LiveInv /\ Gathered => NothingUnpublished
  <2> SUFFICES ASSUME LiveInv, Gathered, result \in {"success", "failure"}
               PROVE  /\ delta \subseteq head.paths
                      /\ <<attempt, result>> \in head.results
                      /\ collected => required \cap local \subseteq head.paths
    BY DEF NothingUnpublished
  <2>1. delta \subseteq head.paths /\ <<attempt, result>> \in head.results
    BY DEF LiveInv, Saved, Recorded
  <2>2. pc = "returned" /\ parent \subseteq head.paths
    BY DEF LiveInv, Turns, Chain
  <2> QED BY <2>1, <2>2 DEF Gathered, Wanted, Covered
<1> QED BY <1>1, <1>2, LiveInvariant, GatheredStep, PTL DEF Spec

\* What a step does to the tags and to the head.
LEMMA RegistrySteps ==
  ASSUME LiveInv, [Next]_vars
  PROVE  /\ \A g \in DOMAIN generations :
              g \in DOMAIN generations' /\ generations'[g] = generations[g]
         /\ head' # head => \E g \in DOMAIN generations : head' = generations[g]
         /\ head' = head \/ head' = live.content
<1>1. CASE \E w \in Callers : Tag(w)
  <2>1. PICK w \in Callers : Tag(w)
    BY <1>1
  <2>2. head' = head /\ (UNCHANGED generations \/ PutGeneration(Merged(w)))
    BY <2>1 DEF Tag
  <2>3. GenerationTag \notin DOMAIN generations
    BY <2>1, TagSaves
  <2>4. Merged(w) \in Content
    <3>1. calls[w].step # "idle"
      BY <2>1 DEF Tag, At
    <3>2. calls[w] \in Call
      BY <3>1, CallFacts DEF LiveInv
    <3> QED BY <3>2, MergedFacts DEF LiveInv
  <2> QED BY <2>2, <2>3, <2>4, PutFacts DEF LiveInv
<1>2. CASE \E w \in Callers : AdvanceHead(w)
  <2>1. PICK w \in Callers : AdvanceHead(w)
    BY <1>2
  <2>2. UNCHANGED generations /\ head' \in {head, live.content}
    BY <2>1 DEF AdvanceHead
  <2> QED BY <2>1, <2>2, HeadSaves
<1>3. CASE UNCHANGED registryVars
  BY <1>3 DEF registryVars
<1>4. \/ UNCHANGED registryVars
      \/ \E w \in Callers : Tag(w)
      \/ \E w \in Callers : AdvanceHead(w)
  <2>1. CASE \E w \in Callers : Publication(w)
    BY <2>1 DEF Publication, Select, Upload, Flush
  <2>2. CASE Main
    BY <2>1, <2>2 DEF Main, Callers, StartPublication, SendPlan, BuildBatch,
      ResolveBatch, CheckDisk, PublishBeforeReclaim, PublishedBeforeReclaim, Reclaim,
      PoolRefresh, PoolEnds, PoolRefreshed, Finish, FinalPublication, RecordResult,
      ReturnResult
  <2>3. CASE Background
    BY <2>1, <2>3 DEF Background, Callers, PublisherTop, PublisherPublished,
      PublisherWaits
  <2>4. CASE PoolBuilds \/ Restart \/ Returned \/ UNCHANGED vars
    BY <2>4 DEF PoolBuilds, Restart, Returned, vars
  <2> QED BY <2>2, <2>3, <2>4 DEF Next
<1> QED BY <1>1, <1>2, <1>3, <1>4

\* No tag is put twice, in whichever attempt and after whatever failure, and the
\* head moves to what has a tag.
THEOREM TagsPutOnce == Spec => GenerationsKept
<1>1. LiveInv /\ [Next]_vars =>
        [ /\ \A g \in DOMAIN generations :
               g \in DOMAIN generations' /\ generations'[g] = generations[g]
          /\ head' # head =>
               \E g \in DOMAIN generations : head' = generations[g] ]_vars
  BY RegistrySteps
<1> QED BY <1>1, LiveInvariant, PTL DEF Spec, GenerationsKept

\* A later head covers what an earlier one did, and keeps its records.
THEOREM HeadNeverShrinks == Spec => HeadGrows
<1>1. LiveInv /\ [Next]_vars =>
        [ head.paths \subseteq head'.paths
            /\ head.results \subseteq head'.results ]_vars
  BY RegistrySteps DEF LiveInv, Chain
<1> QED BY <1>1, LiveInvariant, PTL DEF Spec, HeadGrows
=============================================================================
