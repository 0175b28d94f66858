----------------------------- MODULE ClientsProofs -----------------------------
(***************************************************************************)
(* Theorems about Clients, for any number of hooks, tool calls, attempts   *)
(* and accidents.                                                          *)
(*                                                                         *)
(* The hooks share only the session file, the tools share only what the    *)
(* collector has made of their requests: the invariant has one part for    *)
(* each.                                                                   *)
(***************************************************************************)
EXTENDS Clients, FiniteSetTheorems, TLAPS

HookPlaces == {"unborn", "read", "truncate", "write", "post", "wait", "exited"}
CallPlaces == {"idle", "post", "wait", "done", "failed"}
Outcomes == {"unsent", "sent", "stored", "served", "refused", "lost"}

\* The hooks that have drawn an id, or might have.
Drawn == {h \in Hooks : hook[h].at \notin {"unborn", "read"}}

\* Hooks that know an id of the session that is on.
HasId(h) == hook[h].session # NoId /\ hook[h].era = era

HooksOK ==
  /\ ids \in Nat /\ ids <= Cardinality(Drawn)
  /\ sessionFile \in 1 .. ids \cup {NoId}
  /\ hook \in [Hooks -> [at : HookPlaces, session : 1 .. ids \cup {NoId}, era : 0 .. era]]
  /\ era \in Nat
  /\ exposed \in BOOLEAN

\* While a hook writes, nobody else knows an id of its session; when none does,
\* everybody who knows one has it from the file.
SessionInv ==
  /\ \A g, h \in Hooks :
       /\ h \in Writing /\ HasId(g) => g = h
       /\ h \in Writing => HasId(h)
       /\ Writing = {} /\ HasId(g) => hook[g].session = sessionFile
       /\ hook[g].session # NoId /\ hook[h].session # NoId /\ hook[g].era = hook[h].era
            => hook[g].session = hook[h].session

\* The attempts that the agent does not wait for any more.
Loose(c) ==
  {n \in Attempts : request[<<c, n>>] \in {"sent", "stored"} /\ (n # call[c].attempt \/ call[c].at = "failed")}

CallOK(c) ==
  /\ call[c].at = "idle" => call[c].attempt = 0
  /\ call[c].at # "idle" => call[c].attempt # 0
  /\ call[c].unanswered <= call[c].attempt
  /\ call[c].at \in {"post", "wait"} => call[c].unanswered < call[c].attempt

\* What has become of the attempts of a call.
CallInv(c) ==
  /\ CallOK(c)
  /\ \A n \in Attempts :
       /\ n > call[c].attempt => request[<<c, n>>] = "unsent"
       /\ n = call[c].attempt /\ call[c].at = "post" => request[<<c, n>>] = "unsent"
       /\ n = call[c].attempt /\ call[c].at = "wait" => request[<<c, n>>] # "unsent"
       /\ n = call[c].attempt /\ call[c].at = "done" => request[<<c, n>>] \in {"stored", "served"}
       /\ call[c].tool = "search" => request[<<c, n>>] # "stored"
       /\ call[c].tool # "search" => request[<<c, n>>] # "served"
  /\ Cardinality(Loose(c)) <= call[c].unanswered

CallsOK ==
  /\ call \in [Calls -> [at : CallPlaces, tool : Tools, attempt : 0 .. MaxAttempts, unanswered : 0 .. MaxAttempts]]
  /\ request \in [Requests -> Outcomes]
  /\ up \in BOOLEAN
  /\ accidents \in 0 .. MaxAccidents

CallsInv == \A c \in Calls : CallInv(c)

ClientsInv ==
  /\ HooksOK /\ (~exposed => SessionInv)
  /\ CallsOK /\ CallsInv

-----------------------------------------------------------------------------
(* The hooks and the session file. *)

\* A hook takes another place, and perhaps an id.
Becomes(h, step, session, during) ==
  /\ \A g \in Hooks \ {h} : hook'[g] = hook[g]
  /\ hook'[h].at = step /\ hook'[h].session = session /\ hook'[h].era = during

LEMMA HookBecomes ==
  ASSUME HooksOK, NEW h \in Hooks, ids' \in Nat, ids <= ids', era' \in Nat, era <= era',
         NEW step \in HookPlaces, NEW session \in 1 .. ids' \cup {NoId}, NEW during \in 0 .. era',
         hook' = [hook EXCEPT ![h] = [at |-> step, session |-> session, era |-> during]]
  PROVE  /\ hook' \in [Hooks -> [at : HookPlaces, session : 1 .. ids' \cup {NoId}, era : 0 .. era']]
         /\ Becomes(h, step, session, during)
<1>1. [at : HookPlaces, session : 1 .. ids \cup {NoId}, era : 0 .. era]
        \subseteq [at : HookPlaces, session : 1 .. ids' \cup {NoId}, era : 0 .. era']
  <2>1. 1 .. ids \subseteq 1 .. ids' /\ 0 .. era \subseteq 0 .. era'
    BY DEF HooksOK
  <2> QED BY <2>1
<1>2. hook \in [Hooks -> [at : HookPlaces, session : 1 .. ids' \cup {NoId}, era : 0 .. era']]
  BY <1>1 DEF HooksOK
<1>3. PICK r : r = [at |-> step, session |-> session, era |-> during]
  OBVIOUS
<1>4. r \in [at : HookPlaces, session : 1 .. ids' \cup {NoId}, era : 0 .. era'] /\ hook' = [hook EXCEPT ![h] = r]
  BY <1>3
<1>5. hook' \in [Hooks -> [at : HookPlaces, session : 1 .. ids' \cup {NoId}, era : 0 .. era']]
      /\ hook'[h] = r /\ \A g \in Hooks \ {h} : hook'[g] = hook[g]
  BY <1>2, <1>4
<1> QED BY <1>3, <1>5 DEF Becomes

LEMMA HookMoves ==
  ASSUME HooksOK, NEW h \in Hooks, ids' = ids, era' = era,
         NEW step \in HookPlaces, hook' = [hook EXCEPT ![h].at = step]
  PROVE  /\ hook' \in [Hooks -> [at : HookPlaces, session : 1 .. ids' \cup {NoId}, era : 0 .. era']]
         /\ Becomes(h, step, hook[h].session, hook[h].era)
BY DEF HooksOK, Becomes

\* An id is drawn by a hook that had none.
LEMMA DrawnGrows ==
  ASSUME HooksOK, NEW h \in Hooks, hook[h].at \in {"unborn", "read"},
         \A g \in Hooks \ {h} : hook'[g] = hook[g],
         hook'[h].at \notin {"unborn", "read"}
  PROVE  /\ Cardinality(Drawn') \in Nat
         /\ Cardinality(Drawn') = Cardinality(Drawn) + 1
<1>1. Drawn' = Drawn \cup {h} /\ h \notin Drawn
  BY DEF Drawn
<1>2. IsFiniteSet(Drawn)
  BY FS_Subset, ClientsAssumption DEF Drawn
<1>3. IsFiniteSet(Drawn')
  BY FS_Subset, ClientsAssumption DEF Drawn
<1> QED BY <1>1, <1>2, <1>3, FS_AddElement, FS_CardinalityType

LEMMA DrawnStays ==
  ASSUME HooksOK, Drawn \subseteq Drawn', ids' = ids
  PROVE  ids' \in Nat /\ ids' <= Cardinality(Drawn')
<1>1. IsFiniteSet(Drawn) /\ IsFiniteSet(Drawn')
  BY FS_Subset, ClientsAssumption DEF Drawn
<1>2. Cardinality(Drawn) \in Nat /\ Cardinality(Drawn') \in Nat /\ Cardinality(Drawn) <= Cardinality(Drawn')
  BY <1>1, FS_Subset, FS_CardinalityType
<1> QED BY <1>2 DEF HooksOK

\* A hook that neither writes nor takes an id disturbs nothing.
LEMMA HookPasses ==
  ASSUME HooksOK, ~exposed => SessionInv, NEW h \in Hooks, NEW step \in HookPlaces,
         hook[h].at \notin {"truncate", "write"},
         step \notin {"truncate", "write"}, step = "read" => hook[h].at \in {"unborn", "read"}, step # "unborn",
         hook' = [hook EXCEPT ![h].at = step],
         UNCHANGED <<sessionFile, ids, era, exposed>>
  PROVE  HooksOK' /\ (~exposed' => SessionInv')
<1>1. /\ hook' \in [Hooks -> [at : HookPlaces, session : 1 .. ids' \cup {NoId}, era : 0 .. era']]
      /\ Becomes(h, step, hook[h].session, hook[h].era)
  BY HookMoves
<1>2. ids' \in Nat /\ ids' <= Cardinality(Drawn')
  BY <1>1, DrawnStays DEF Drawn, Becomes
<1>3. HooksOK'
  BY <1>1, <1>2 DEF HooksOK
<1>4. Writing' = Writing /\ \A g \in Hooks : HasId(g)' <=> HasId(g)
  BY <1>1 DEF Becomes, Writing, HasId
<1> QED BY <1>1, <1>3, <1>4 DEF Becomes, SessionInv

\* A hook draws an id for a session of which nobody knows one.
LEMMA DrawKeeps ==
  ASSUME HooksOK, ~exposed => SessionInv, NEW h \in Hooks, hook[h].at \in {"unborn", "read"},
         era' \in Nat, era <= era', Draws(h, era'), UNCHANGED sessionFile,
         era' # era \/ sessionFile = NoId
  PROVE  HooksOK' /\ (~exposed' => SessionInv')
<1>1. ids' = ids + 1 /\ ids \in Nat
  BY DEF HooksOK, Draws
<1>2. /\ hook' \in [Hooks -> [at : HookPlaces, session : 1 .. ids' \cup {NoId}, era : 0 .. era']]
      /\ Becomes(h, "truncate", ids', era')
  <2>1. ids' \in Nat /\ ids <= ids' /\ ids' \in 1 .. ids' \cup {NoId} /\ era' \in 0 .. era'
    BY <1>1
  <2>2. hook' = [hook EXCEPT ![h] = [at |-> "truncate", session |-> ids', era |-> era']]
    BY <1>1 DEF Draws
  <2>3. "truncate" \in HookPlaces
    BY DEF HookPlaces
  <2> QED BY <2>1, <2>2, <2>3, HookBecomes
<1>3. ids' <= Cardinality(Drawn')
  <2>1. IsFiniteSet(Drawn) /\ Cardinality(Drawn) \in Nat
    BY FS_Subset, FS_CardinalityType, ClientsAssumption DEF Drawn
  <2>2. Cardinality(Drawn') = Cardinality(Drawn) + 1
    BY <1>2, DrawnGrows DEF Becomes
  <2> QED BY <1>1, <2>1, <2>2 DEF HooksOK
<1>4. HooksOK'
  <2>1. sessionFile' \in 1 .. ids' \cup {NoId}
    BY <1>1 DEF HooksOK
  <2>2. exposed' \in BOOLEAN
    BY Zenon DEF Draws
  <2> QED BY <1>1, <1>2, <1>3, <2>1, <2>2 DEF HooksOK
<1>5. ASSUME ~exposed' PROVE SessionInv'
  <2>1. SessionInv /\ Writing = {}
    BY <1>5 DEF Draws
  <2>2. \A g \in Hooks \ {h} : hook[g].session # NoId => hook[g].era # era'
    BY <2>1 DEF SessionInv, HasId, HooksOK
  <2>3. Writing' = {h}
    BY <1>2, <2>1 DEF Writing, Becomes
  <2>4. HasId(h)' /\ \A g \in Hooks \ {h} : ~HasId(g)'
    BY <1>1, <1>2, <2>2, ClientsAssumption DEF HasId, Becomes
  <2>5. ASSUME NEW g \in Hooks, NEW k \in Hooks, hook'[g].session # NoId, hook'[k].session # NoId,
               hook'[g].era = hook'[k].era
        PROVE  hook'[g].session = hook'[k].session
    BY <1>2, <2>1, <2>2, <2>5 DEF Becomes, SessionInv
  <2> QED BY <2>3, <2>4, <2>5 DEF SessionInv
<1> QED BY <1>4, <1>5

LEMMA SpawnKeeps ==
  ASSUME HooksOK, ~exposed => SessionInv, NEW h \in Hooks, hook[h].at = "unborn",
         Spawns(h), UNCHANGED sessionFile
  PROVE  HooksOK' /\ (~exposed' => SessionInv')
<1>1. era \in Nat /\ era' = era + 1 /\ Draws(h, era')
  BY DEF HooksOK, Spawns
<1>2. era' \in Nat /\ era <= era' /\ era' # era
  BY <1>1
<1> QED BY <1>1, <1>2, DrawKeeps

LEMMA ReadKeeps ==
  ASSUME HooksOK, ~exposed => SessionInv, NEW h \in Hooks, ReadsSession(h)
  PROVE  HooksOK' /\ (~exposed' => SessionInv')
<1>1. UNCHANGED <<sessionFile, era>> /\ hook[h].at = "read" /\ era \in Nat
  BY DEF ReadsSession, HooksOK
<1>2. CASE sessionFile = NoId
  <2>1. Draws(h, era')
    BY <1>1, <1>2 DEF ReadsSession, FallsBack
  <2> QED BY <1>1, <1>2, <2>1, DrawKeeps
<1>3. CASE sessionFile # NoId
  <2>1. /\ hook' = [hook EXCEPT ![h].at = "post", ![h].session = sessionFile, ![h].era = era]
        /\ exposed' = (exposed \/ Writing # {})
        /\ UNCHANGED ids
    BY <1>3 DEF ReadsSession
  <2>2. Becomes(h, "post", sessionFile, era)
    BY <2>1 DEF HooksOK, Becomes
  <2>3. hook' \in [Hooks -> [at : HookPlaces, session : 1 .. ids' \cup {NoId}, era : 0 .. era']]
    <3>1. era \in 0 .. era /\ "post" \in HookPlaces /\ sessionFile \in 1 .. ids \cup {NoId}
      BY <1>1 DEF HookPlaces, HooksOK
    <3> QED BY <1>1, <2>1, <3>1 DEF HooksOK
  <2>4. ids' \in Nat /\ ids' <= Cardinality(Drawn')
    BY <1>1, <2>1, <2>2, DrawnStays DEF Drawn, Becomes
  <2>5. HooksOK'
    <3>1. exposed' \in BOOLEAN
      BY <2>1, Zenon
    <3> QED BY <1>1, <2>1, <2>3, <2>4, <3>1 DEF HooksOK
  <2>6. ASSUME ~exposed' PROVE SessionInv'
    <3>1. SessionInv /\ Writing = {}
      BY <2>1, <2>6
    <3>2. Writing' = {}
      BY <2>2, <3>1 DEF Writing, Becomes
    <3>3. \A g \in Hooks \ {h} : HasId(g)' <=> HasId(g)
      BY <1>1, <2>2 DEF HasId, Becomes
    <3>4. \A g \in Hooks \ {h} : hook[g].session # NoId /\ hook[g].era = era => hook[g].session = sessionFile
      BY <3>1 DEF SessionInv, HasId
    <3>5. ASSUME NEW g \in Hooks, HasId(g)' PROVE hook'[g].session = sessionFile'
      BY <1>1, <2>2, <3>3, <3>4, <3>5 DEF HasId, Becomes
    <3>6. ASSUME NEW g \in Hooks, NEW k \in Hooks, hook'[g].session # NoId, hook'[k].session # NoId,
                 hook'[g].era = hook'[k].era
          PROVE  hook'[g].session = hook'[k].session
      BY <2>2, <3>1, <3>4, <3>6 DEF Becomes, SessionInv
    <3> QED BY <3>2, <3>5, <3>6 DEF SessionInv
  <2> QED BY <2>5, <2>6
<1> QED BY <1>2, <1>3

\* The two halves of writeFileSync.
LEMMA WriteKeeps ==
  ASSUME HooksOK, ~exposed => SessionInv, NEW h \in Hooks, Truncates(h) \/ WritesSession(h)
  PROVE  HooksOK' /\ (~exposed' => SessionInv')
<1>1. UNCHANGED <<ids, era, exposed>> /\ hook[h].at \in {"truncate", "write"}
  BY DEF Truncates, WritesSession
<1>2. PICK step \in {"write", "post"} :
        /\ hook' = [hook EXCEPT ![h].at = step]
        /\ sessionFile' = IF step = "write" THEN NoId ELSE hook[h].session
  BY DEF Truncates, WritesSession
<1>3. /\ hook' \in [Hooks -> [at : HookPlaces, session : 1 .. ids' \cup {NoId}, era : 0 .. era']]
      /\ Becomes(h, step, hook[h].session, hook[h].era)
  BY <1>1, <1>2, HookMoves DEF HookPlaces
<1>4. ids' \in Nat /\ ids' <= Cardinality(Drawn')
  BY <1>1, <1>2, <1>3, DrawnStays DEF Drawn, Becomes
<1>5. HooksOK'
  <2>1. hook[h].session \in 1 .. ids \cup {NoId}
    BY DEF HooksOK
  <2> QED BY <1>1, <1>2, <1>3, <1>4, <2>1 DEF HooksOK
<1>6. ASSUME ~exposed' PROVE SessionInv'
  <2>1. SessionInv /\ h \in Writing
    BY <1>1, <1>6 DEF Writing
  <2>2. \A g \in Hooks : HasId(g)' <=> HasId(g)
    BY <1>1, <1>3 DEF HasId, Becomes
  <2>3. HasId(h) /\ \A g \in Hooks : HasId(g) => g = h
    BY <2>1 DEF SessionInv
  <2>4. Writing' \subseteq Writing /\ Writing \subseteq {h}
    BY <1>3, <2>1, <2>3 DEF Writing, Becomes, SessionInv
  <2>5. step = "write" => h \in Writing'
    BY <1>3 DEF Writing, Becomes
  <2>6. ASSUME NEW g \in Hooks, Writing' = {}, HasId(g)' PROVE hook'[g].session = sessionFile'
    BY <1>2, <1>3, <2>2, <2>3, <2>5, <2>6 DEF Becomes
  <2>7. \A g \in Hooks : hook'[g].session = hook[g].session /\ hook'[g].era = hook[g].era
    BY <1>3 DEF Becomes
  <2> QED BY <2>1, <2>2, <2>3, <2>4, <2>6, <2>7 DEF SessionInv
<1> QED BY <1>5, <1>6

LEMMA LossKeeps ==
  ASSUME HooksOK, ~exposed => SessionInv, FileLost
  PROVE  HooksOK' /\ (~exposed' => SessionInv')
<1>1. /\ sessionFile' = NoId /\ era' = era + 1 /\ UNCHANGED <<ids, hook>> /\ era \in Nat
      /\ exposed' = (exposed \/ Writing # {})
  BY DEF FileLost, HooksOK
<1>2. hook' \in [Hooks -> [at : HookPlaces, session : 1 .. ids' \cup {NoId}, era : 0 .. era']]
  <2>1. 0 .. era \subseteq 0 .. era'
    BY <1>1
  <2>2. [at : HookPlaces, session : 1 .. ids \cup {NoId}, era : 0 .. era]
          \subseteq [at : HookPlaces, session : 1 .. ids \cup {NoId}, era : 0 .. era']
    BY <2>1
  <2> QED BY <1>1, <2>2 DEF HooksOK
<1>3. HooksOK'
  <2>1. exposed' \in BOOLEAN
    BY <1>1, Zenon
  <2>2. ids' \in Nat /\ ids' <= Cardinality(Drawn')
    BY <1>1, DrawnStays DEF Drawn
  <2> QED BY <1>1, <1>2, <2>1, <2>2 DEF HooksOK
<1>4. ASSUME ~exposed' PROVE SessionInv'
  <2>1. SessionInv /\ Writing = {} /\ Writing' = {}
    BY <1>1, <1>4 DEF Writing
  <2>2. \A g \in Hooks : ~HasId(g)'
    BY <1>1 DEF HasId, HooksOK
  <2> QED BY <1>1, <2>1, <2>2 DEF SessionInv
<1> QED BY <1>3, <1>4

-----------------------------------------------------------------------------
(* The calls and their requests. *)

LEMMA LooseIsFinite ==
  ASSUME NEW c
  PROVE  /\ IsFiniteSet(Loose(c)) /\ Cardinality(Loose(c)) \in Nat
         /\ IsFiniteSet(Loose(c)') /\ Cardinality(Loose(c)') \in Nat
         /\ Loose(c)' \subseteq Loose(c) => Cardinality(Loose(c)') <= Cardinality(Loose(c))
<1>1. IsFiniteSet(Attempts)
  BY FS_Interval, ClientsAssumption DEF Attempts
<1>2. IsFiniteSet(Loose(c)) /\ IsFiniteSet(Loose(c)')
  BY <1>1, FS_Subset DEF Loose
<1> QED BY <1>2, FS_CardinalityType, FS_Subset

\* Nothing happened to a call.
Untouched(c) ==
  /\ call'[c] = call[c]
  /\ \A n \in Attempts : request'[<<c, n>>] = request[<<c, n>>]

LEMMA UntouchedKeeps ==
  ASSUME NEW c, CallInv(c), Untouched(c)
  PROVE  CallInv(c)'
<1>1. Loose(c)' = Loose(c)
  BY DEF Loose, Untouched
<1> QED BY <1>1 DEF CallInv, CallOK, Untouched

LEMMA RequestsDiffer ==
  ASSUME NEW c \in Calls, NEW n \in Attempts
  PROVE  <<c, n>> \in Requests /\ <<c, n>> \notin Hooks
BY ClientsAssumption DEF Requests, Attempts

\* What the agent and the tool make of a call.
CallBecomes(c, step, attempt, unanswered) ==
  /\ call' \in [Calls -> [at : CallPlaces, tool : Tools, attempt : 0 .. MaxAttempts, unanswered : 0 .. MaxAttempts]]
  /\ call'[c].at = step /\ call'[c].attempt = attempt /\ call'[c].unanswered = unanswered
  /\ \A d \in Calls \ {c} : call'[d] = call[d]

LEMMA AskedKeeps ==
  ASSUME CallsOK, CallsInv, NEW c \in Calls, NEW tool \in Tools, Asked(c, tool)
  PROVE  CallsOK' /\ CallsInv'
<1>1. UNCHANGED <<request, up, accidents>> /\ call[c].attempt < MaxAttempts /\ call[c].at \in {"idle", "failed"}
      /\ (call[c].at = "failed" => tool = call[c].tool) /\ CallInv(c) /\ MaxAttempts \in Nat
  BY ClientsAssumption DEF Asked, CallsInv
<1>2. PICK step \in {"post", "failed"} :
        call' = [call EXCEPT ![c].at = step, ![c].tool = tool, ![c].attempt = @ + 1]
  BY DEF Asked
<1>3. call[c] \in [at : CallPlaces, tool : Tools, attempt : 0 .. MaxAttempts, unanswered : 0 .. MaxAttempts]
  BY DEF CallsOK
<1>4. PICK r : r = [call[c] EXCEPT !.at = step, !.tool = tool, !.attempt = call[c].attempt + 1]
  OBVIOUS
<1>5. /\ r \in [at : CallPlaces, tool : Tools, attempt : 0 .. MaxAttempts, unanswered : 0 .. MaxAttempts]
      /\ r.at = step /\ r.tool = tool /\ r.attempt = call[c].attempt + 1 /\ r.unanswered = call[c].unanswered
  <2>1. call[c].attempt + 1 \in 0 .. MaxAttempts /\ step \in CallPlaces
    BY <1>1, <1>3 DEF CallPlaces
  <2> QED BY <1>3, <1>4, <2>1
<1>6. call' = [call EXCEPT ![c] = r]
  BY <1>2, <1>4 DEF CallsOK
<1>7. CallBecomes(c, step, call[c].attempt + 1, call[c].unanswered) /\ call'[c].tool = tool
  BY <1>5, <1>6 DEF CallsOK, CallBecomes
<1>8. CallsOK'
  BY <1>1, <1>7 DEF CallsOK, CallBecomes
<1>9. CallInv(c)'
  <2>1. call[c].attempt \in Nat /\ call[c].unanswered \in Nat
    BY <1>3
  <2>2. CallOK(c)'
    BY <1>1, <1>7, <2>1 DEF CallBecomes, CallInv, CallOK
  <2>3. ASSUME NEW n \in Attempts
        PROVE  /\ n > call'[c].attempt => request'[<<c, n>>] = "unsent"
               /\ n = call'[c].attempt /\ call'[c].at = "post" => request'[<<c, n>>] = "unsent"
               /\ tool = "search" => request'[<<c, n>>] # "stored"
               /\ tool # "search" => request'[<<c, n>>] # "served"
    <3>1. n \in Nat
      BY DEF Attempts
    <3>2. n > call[c].attempt => request[<<c, n>>] = "unsent"
      BY <1>1 DEF CallInv
    <3>3. call[c].at = "idle" => request[<<c, n>>] = "unsent"
      BY <1>1, <2>1, <3>1, <3>2 DEF CallInv, CallOK, Attempts
    <3>4. call[c].at = "failed" => /\ tool = "search" => request[<<c, n>>] # "stored"
                                   /\ tool # "search" => request[<<c, n>>] # "served"
      BY <1>1 DEF CallInv
    <3> QED BY <1>1, <1>7, <2>1, <3>1, <3>2, <3>3, <3>4 DEF CallBecomes
  <2>4. Cardinality(Loose(c)') <= call'[c].unanswered
    <3>1. Loose(c)' \subseteq Loose(c)
      <4>1. ASSUME NEW n \in Attempts, request[<<c, n>>] \in {"sent", "stored"}
            PROVE  n # call[c].attempt \/ call[c].at = "failed"
        BY <1>1, <2>1, <4>1 DEF CallInv, CallOK, Attempts
      <4> QED BY <1>1, <4>1 DEF Loose
    <3> QED BY <1>1, <1>7, <2>1, <3>1, LooseIsFinite DEF CallInv, CallBecomes
  <2> QED BY <1>7, <2>2, <2>3, <2>4 DEF CallInv, CallBecomes
<1>10. ASSUME NEW d \in Calls, d # c PROVE CallInv(d)'
  BY <1>1, <1>7, <1>10, UntouchedKeeps DEF CallBecomes, Untouched, CallsInv
<1> QED BY <1>8, <1>9, <1>10 DEF CallsInv

LEMMA PostKeeps ==
  ASSUME CallsOK, CallsInv, NEW c \in Calls, ToolPosts(c)
  PROVE  CallsOK' /\ CallsInv'
<1>1. UNCHANGED <<up, accidents>> /\ call[c].at = "post" /\ CallInv(c) /\ call' = [call EXCEPT ![c].at = "wait"]
  BY DEF ToolPosts, CallsInv
<1>2. call[c] \in [at : CallPlaces, tool : Tools, attempt : 0 .. MaxAttempts, unanswered : 0 .. MaxAttempts]
  BY DEF CallsOK
<1>3. PICK m \in Attempts : m = call[c].attempt
  BY <1>1, <1>2, ClientsAssumption DEF CallInv, CallOK, Attempts
<1>4. CallBecomes(c, "wait", m, call[c].unanswered) /\ call'[c].tool = call[c].tool
  <2>1. PICK r : r = [call[c] EXCEPT !.at = "wait"]
    OBVIOUS
  <2>2. /\ r \in [at : CallPlaces, tool : Tools, attempt : 0 .. MaxAttempts, unanswered : 0 .. MaxAttempts]
        /\ r.at = "wait" /\ r.tool = call[c].tool /\ r.attempt = m /\ r.unanswered = call[c].unanswered
    BY <1>2, <1>3, <2>1 DEF CallPlaces
  <2>3. call' = [call EXCEPT ![c] = r]
    BY <1>1, <2>1
  <2> QED BY <2>2, <2>3 DEF CallsOK, CallBecomes
<1>5. PICK outcome \in {"sent", "lost"} : request' = [request EXCEPT ![<<c, m>>] = outcome]
  BY <1>3 DEF ToolPosts, Sends, Current
<1>6. /\ request' \in [Requests -> Outcomes]
      /\ request'[<<c, m>>] = outcome
      /\ \A d \in Calls, n \in Attempts : <<d, n>> # <<c, m>> => request'[<<d, n>>] = request[<<d, n>>]
  BY <1>5, RequestsDiffer DEF CallsOK, Outcomes
<1>7. CallsOK'
  BY <1>1, <1>4, <1>6 DEF CallsOK, CallBecomes
<1>8. CallInv(c)'
  <2>1. call[c].unanswered \in Nat /\ m \in Nat
    BY <1>2, <1>3
  <2>2. CallOK(c)'
    BY <1>1, <1>3, <1>4, <2>1 DEF CallBecomes, CallInv, CallOK
  <2>3. Loose(c)' \subseteq Loose(c)
    BY <1>1, <1>3, <1>4, <1>6 DEF Loose, CallBecomes
  <2>4. Cardinality(Loose(c)') <= call'[c].unanswered
    BY <1>1, <1>4, <2>1, <2>3, LooseIsFinite DEF CallInv, CallBecomes
  <2>5. ASSUME NEW n \in Attempts, n # m
        PROVE  request'[<<c, n>>] = request[<<c, n>>]
    BY <1>6, <2>5
  <2> QED BY <1>1, <1>3, <1>4, <1>6, <2>1, <2>2, <2>4, <2>5 DEF CallInv, CallBecomes, Attempts
<1>9. ASSUME NEW d \in Calls, d # c PROVE CallInv(d)'
  <2>1. Untouched(d)
    BY <1>4, <1>6, <1>9 DEF CallBecomes, Untouched
  <2> QED BY <2>1, UntouchedKeeps DEF CallsInv
<1> QED BY <1>7, <1>8, <1>9 DEF CallsInv

LEMMA EndKeeps ==
  ASSUME CallsOK, CallsInv, NEW c \in Calls, ToolSucceeds(c) \/ ToolFails(c)
  PROVE  CallsOK' /\ CallsInv'
<1>1. UNCHANGED <<request, up, accidents>> /\ call[c].at = "wait" /\ CallInv(c)
  BY DEF ToolSucceeds, ToolFails, CallsInv
<1>2. call[c] \in [at : CallPlaces, tool : Tools, attempt : 0 .. MaxAttempts, unanswered : 0 .. MaxAttempts]
  BY DEF CallsOK
<1>3. PICK m \in Attempts : m = call[c].attempt
  BY <1>1, <1>2, ClientsAssumption DEF CallInv, CallOK, Attempts
<1>4. call[c].unanswered \in Nat /\ m \in Nat /\ call[c].unanswered + 1 <= m /\ m <= MaxAttempts /\ MaxAttempts \in Nat
  BY <1>1, <1>2, <1>3, ClientsAssumption DEF CallInv, CallOK, Attempts
<1>5. PICK step \in {"done", "failed"}, given \in {0, 1} :
        /\ call' = [call EXCEPT ![c].at = step, ![c].unanswered = call[c].unanswered + given]
        /\ step = "done" => request[<<c, m>>] \in {"stored", "served"} /\ given = 0
        /\ step = "failed" /\ given = 0 => request[<<c, m>>] \notin {"sent", "stored"}
  <2>1. CASE ToolSucceeds(c)
    <3>1. call' = [call EXCEPT ![c].at = "done", ![c].unanswered = call[c].unanswered + 0]
      <4>1. call[c].unanswered + 0 = call[c].unanswered
        BY <1>4
      <4>2. call' = [call EXCEPT ![c].at = "done"]
        BY <2>1 DEF ToolSucceeds
      <4> QED BY <1>2, <4>1, <4>2 DEF CallsOK
    <3>2. request[<<c, m>>] \in {"stored", "served"}
      BY <1>3, <2>1 DEF ToolSucceeds, GoodAnswer, GoodSave, GoodSearch, Current
    <3> QED BY <3>1, <3>2
  <2>2. CASE Answered(Current(c)) /\ ~GoodAnswer(c) /\ call' = [call EXCEPT ![c].at = "failed"]
    <3>1. call' = [call EXCEPT ![c].at = "failed", ![c].unanswered = call[c].unanswered + 0]
      <4>1. call[c].unanswered + 0 = call[c].unanswered
        BY <1>4
      <4> QED BY <1>2, <2>2, <4>1 DEF CallsOK
    <3>2. request[<<c, m>>] \notin {"sent", "stored"}
      BY <1>3, <2>2 DEF Answered, GoodAnswer, GoodSave, GoodSearch, Current
    <3> QED BY <3>1, <3>2
  <2>3. CASE call' = [call EXCEPT ![c].at = "failed", ![c].unanswered = @ + 1]
    <3>1. call' = [call EXCEPT ![c].at = "failed", ![c].unanswered = call[c].unanswered + 1]
      BY <2>3 DEF CallsOK
    <3> QED BY <3>1
  <2> QED BY <2>1, <2>2, <2>3 DEF ToolFails
<1>6. CallBecomes(c, step, m, call[c].unanswered + given) /\ call'[c].tool = call[c].tool
  <2>1. PICK r : r = [call[c] EXCEPT !.at = step, !.unanswered = call[c].unanswered + given]
    OBVIOUS
  <2>2. step \in CallPlaces /\ call[c].unanswered + given \in 0 .. MaxAttempts
    BY <1>4 DEF CallPlaces
  <2>3. /\ r \in [at : CallPlaces, tool : Tools, attempt : 0 .. MaxAttempts, unanswered : 0 .. MaxAttempts]
        /\ r.at = step /\ r.tool = call[c].tool /\ r.attempt = m /\ r.unanswered = call[c].unanswered + given
    BY <1>2, <1>3, <2>1, <2>2
  <2>4. call' = [call EXCEPT ![c] = r]
    BY <1>5, <2>1 DEF CallsOK
  <2> QED BY <2>3, <2>4 DEF CallsOK, CallBecomes
<1>7. CallsOK'
  BY <1>1, <1>6 DEF CallsOK, CallBecomes
<1>8. CallInv(c)'
  <2>1. CallOK(c)'
    BY <1>1, <1>3, <1>4, <1>6 DEF CallBecomes, CallInv, CallOK
  <2>2. Cardinality(Loose(c)') <= call[c].unanswered + given
    <3>1. CASE Loose(c)' \subseteq Loose(c)
      BY <1>1, <1>4, <3>1, LooseIsFinite DEF CallInv
    <3>2. CASE given = 1
      <4>1. Loose(c)' \subseteq Loose(c) \cup {m}
        BY <1>1, <1>3, <1>6 DEF Loose, CallBecomes
      <4>2. IsFiniteSet(Loose(c) \cup {m}) /\ Cardinality(Loose(c) \cup {m}) <= Cardinality(Loose(c)) + 1
        <5>1. m \notin Loose(c)
          BY <1>1, <1>3 DEF Loose
        <5>2. IsFiniteSet(Loose(c)) /\ Cardinality(Loose(c)) \in Nat
          BY LooseIsFinite
        <5>3. IsFiniteSet(Loose(c) \cup {m}) /\ Cardinality(Loose(c) \cup {m}) = Cardinality(Loose(c)) + 1
          BY <5>1, <5>2, FS_AddElement
        <5> QED BY <5>2, <5>3
      <4>3. Cardinality(Loose(c)') <= Cardinality(Loose(c) \cup {m}) /\ Cardinality(Loose(c) \cup {m}) \in Nat
        BY <4>1, <4>2, FS_Subset, FS_CardinalityType
      <4> QED BY <1>1, <1>4, <3>2, <4>2, <4>3, LooseIsFinite DEF CallInv
    <3>3. given # 1 => Loose(c)' \subseteq Loose(c)
      BY <1>1, <1>3, <1>5, <1>6 DEF Loose, CallBecomes
    <3> QED BY <3>1, <3>2, <3>3
  <2> QED BY <1>1, <1>3, <1>5, <1>6, <2>1, <2>2 DEF CallInv, CallBecomes
<1>9. ASSUME NEW d \in Calls, d # c PROVE CallInv(d)'
  BY <1>1, <1>6, <1>9, UntouchedKeeps DEF CallBecomes, Untouched, CallsInv
<1> QED BY <1>7, <1>8, <1>9 DEF CallsInv

-----------------------------------------------------------------------------
(* The collector. *)

\* The collector settles requests: it answers some, others are lost with it. No
\* search stores, and nothing else serves.
LEMMA SettledKeeps ==
  ASSUME CallsOK, CallsInv, UNCHANGED call, request' \in [Requests -> Outcomes],
         \A c \in Calls, n \in Attempts :
           \/ request'[<<c, n>>] = request[<<c, n>>]
           \/ /\ request[<<c, n>>] = "sent"
              /\ request'[<<c, n>>] \in {"stored", "served", "refused", "lost"}
              /\ request'[<<c, n>>] = "served" => call[c].tool = "search"
              /\ request'[<<c, n>>] = "stored" => call[c].tool # "search",
         up' \in BOOLEAN, accidents' \in 0 .. MaxAccidents
  PROVE  CallsOK' /\ CallsInv'
<1>1. CallsOK'
  BY DEF CallsOK
<1>2. ASSUME NEW c \in Calls PROVE CallInv(c)'
  <2>1. CallInv(c) /\ CallOK(c)'
    BY DEF CallsInv, CallInv, CallOK
  <2>2. Loose(c)' \subseteq Loose(c)
    BY DEF Loose
  <2>3. call[c].unanswered \in Nat
    BY DEF CallsOK
  <2>4. Cardinality(Loose(c)') <= call'[c].unanswered
    BY <2>1, <2>2, <2>3, LooseIsFinite DEF CallInv
  <2> QED BY <2>1, <2>4 DEF CallInv
<1> QED BY <1>1, <1>2 DEF CallsInv

LEMMA HandlesKeeps ==
  ASSUME CallsOK, CallsInv, NEW r \in Requests, CollectorHandles(r)
  PROVE  CallsOK' /\ CallsInv'
<1>1. UNCHANGED <<call, up, accidents>> /\ request[r] = "sent"
  BY DEF CollectorHandles
<1>2. PICK outcome \in {"stored", "served", "refused"} :
        /\ request' = [request EXCEPT ![r] = outcome]
        /\ outcome = "served" => IsSearch(r)
        /\ outcome = "stored" => ~IsSearch(r)
  BY DEF CollectorHandles
<1>3. request' \in [Requests -> Outcomes] /\ \A q \in Requests : request'[q] = IF q = r THEN outcome ELSE request[q]
  BY <1>2 DEF CallsOK, Outcomes
<1>4. ASSUME NEW c \in Calls, NEW n \in Attempts
      PROVE  \/ request'[<<c, n>>] = request[<<c, n>>]
             \/ /\ request[<<c, n>>] = "sent"
                /\ request'[<<c, n>>] \in {"stored", "served", "refused", "lost"}
                /\ request'[<<c, n>>] = "served" => call[c].tool = "search"
                /\ request'[<<c, n>>] = "stored" => call[c].tool # "search"
  <2>1. <<c, n>> \in Requests /\ <<c, n>> \notin Hooks
    BY RequestsDiffer
  <2>2. CASE r # <<c, n>>
    BY <1>3, <2>1, <2>2
  <2>3. CASE r = <<c, n>>
    <3>1. r[1] = c
      BY <2>3
    <3> QED BY <1>1, <1>2, <1>3, <2>1, <2>3, <3>1 DEF IsSearch
  <2> QED BY <2>2, <2>3
<1> QED BY <1>1, <1>3, <1>4, SettledKeeps DEF CallsOK

LEMMA DeathKeeps ==
  ASSUME CallsOK, CallsInv, CollectorDies
  PROVE  CallsOK' /\ CallsInv'
<1>1. /\ request' = [r \in Requests |-> IF request[r] = "sent" THEN "lost" ELSE request[r]]
      /\ up' = FALSE /\ UNCHANGED call /\ accidents' = accidents + 1 /\ accidents < MaxAccidents
  BY DEF CollectorDies
<1>2. request' \in [Requests -> Outcomes]
  BY <1>1 DEF CallsOK, Outcomes
<1>3. up' \in BOOLEAN
  BY <1>1, Zenon
<1>4. accidents' \in 0 .. MaxAccidents
  BY <1>1, ClientsAssumption DEF CallsOK
<1>5. \A c \in Calls, n \in Attempts : <<c, n>> \in Requests
  BY RequestsDiffer
<1>6. \A c \in Calls, n \in Attempts :
        request'[<<c, n>>] = IF request[<<c, n>>] = "sent" THEN "lost" ELSE request[<<c, n>>]
  BY <1>1, <1>5
<1> QED BY <1>1, <1>2, <1>3, <1>4, <1>6, SettledKeeps

\* What a hook does with its own request is no concern of the calls.
LEMMA HookRequestKeeps ==
  ASSUME CallsOK, CallsInv, UNCHANGED <<call, up, accidents>>, NEW h \in Hooks, NEW outcome \in Outcomes,
         request' = [request EXCEPT ![h] = outcome]
  PROVE  CallsOK' /\ CallsInv'
<1>1. CallsOK'
  BY DEF CallsOK
<1>2. ASSUME NEW c \in Calls PROVE CallInv(c)'
  <2>1. ASSUME NEW n \in Attempts PROVE request'[<<c, n>>] = request[<<c, n>>]
    <3>1. <<c, n>> \in Requests /\ <<c, n>> # h
      BY RequestsDiffer
    <3> QED BY <3>1 DEF CallsOK
  <2> QED BY <2>1, UntouchedKeeps DEF Untouched, CallsInv
<1> QED BY <1>1, <1>2 DEF CallsInv

LEMMA CallsRest ==
  ASSUME CallsOK, CallsInv, UNCHANGED <<call, request>>, up' \in BOOLEAN, accidents' \in 0 .. MaxAccidents
  PROVE  CallsOK' /\ CallsInv'
BY UntouchedKeeps DEF CallsOK, CallsInv, Untouched

LEMMA HooksRest ==
  ASSUME HooksOK, ~exposed => SessionInv, UNCHANGED <<sessionFile, ids, hook, era, exposed>>
  PROVE  HooksOK' /\ (~exposed' => SessionInv')
<1>1. Drawn' = Drawn /\ Writing' = Writing /\ \A h \in Hooks : HasId(h)' <=> HasId(h)
  BY DEF Drawn, Writing, HasId
<1> QED BY <1>1 DEF HooksOK, SessionInv

-----------------------------------------------------------------------------
(* The invariant. *)

LEMMA InitKeeps ==
  ASSUME Init
  PROVE  ClientsInv
<1>1. FALSE \in BOOLEAN
  BY Zenon
<1>2. HooksOK
  <2>1. Drawn = {} /\ Cardinality(Drawn) = 0
    BY FS_EmptySet DEF Init, Drawn
  <2>2. hook \in [Hooks -> [at : HookPlaces, session : 1 .. ids \cup {NoId}, era : 0 .. era]]
    BY DEF Init, HookPlaces
  <2>3. exposed \in BOOLEAN
    BY <1>1 DEF Init
  <2> QED BY <2>1, <2>2, <2>3 DEF Init, HooksOK
<1>3. SessionInv
  BY DEF Init, SessionInv, Writing, HasId
<1>4. CallsOK
  BY ClientsAssumption DEF Init, CallsOK, CallPlaces, Tools, Outcomes
<1>5. ASSUME NEW c \in Calls PROVE CallInv(c)
  <2>1. \A n \in Attempts : request[<<c, n>>] = "unsent"
    BY RequestsDiffer DEF Init
  <2>2. Loose(c) = {} /\ Cardinality(Loose(c)) = 0
    BY <2>1, FS_EmptySet DEF Loose
  <2> QED BY <2>1, <2>2 DEF Init, CallInv, CallOK, Attempts
<1> QED BY <1>2, <1>3, <1>4, <1>5 DEF ClientsInv, CallsInv

LEMMA StepKeepsInvariant ==
  ASSUME ClientsInv, [Next]_vars
  PROVE  ClientsInv'
<1>1. HooksOK /\ (~exposed => SessionInv) /\ CallsOK /\ CallsInv
  BY DEF ClientsInv
<1>2. up \in BOOLEAN /\ accidents \in 0 .. MaxAccidents
  BY <1>1 DEF CallsOK
<1>3. UNCHANGED <<call, request, up, accidents>> => CallsOK' /\ CallsInv'
  BY <1>1, <1>2, CallsRest
<1>4. UNCHANGED <<sessionFile, ids, hook, era, exposed>> => HooksOK' /\ (~exposed' => SessionInv')
  BY <1>1, HooksRest
<1>5. ASSUME NEW h \in Hooks, CliRuns(h) \/ IdeRuns(h) PROVE ClientsInv'
  <2>1. hook[h].at = "unborn" /\ UNCHANGED <<sessionFile, call, request, up, accidents>>
    BY <1>5 DEF CliRuns, IdeRuns
  <2>2. CASE Spawns(h)
    BY <1>1, <1>3, <2>1, <2>2, SpawnKeeps DEF ClientsInv
  <2>3. ASSUME NEW next \in {"read", "exited"}, Goes(h, next) PROVE ClientsInv'
    <3>1. hook' = [hook EXCEPT ![h].at = next] /\ UNCHANGED <<ids, era, exposed>> /\ next \in HookPlaces
      BY <2>3 DEF Goes, HookPlaces
    <3>2. HooksOK' /\ (~exposed' => SessionInv')
      BY <1>1, <2>1, <2>3, <3>1, HookPasses
    <3> QED BY <1>3, <2>1, <3>2 DEF ClientsInv
  <2> QED BY <1>5, <2>2, <2>3 DEF CliRuns, IdeRuns
<1>6. ASSUME NEW h \in Hooks, SessionStep(h) PROVE ClientsInv'
  BY <1>1, <1>3, <1>6, ReadKeeps, WriteKeeps DEF SessionStep, ClientsInv
<1>7. ASSUME NEW h \in Hooks, HookPosts(h) PROVE ClientsInv'
  <2>1. HooksOK' /\ (~exposed' => SessionInv')
    <3>1. "wait" \in HookPlaces
      BY DEF HookPlaces
    <3> QED BY <1>1, <1>7, <3>1, HookPasses DEF HookPosts
  <2>2. PICK outcome \in Outcomes : request' = [request EXCEPT ![h] = outcome]
    BY <1>7 DEF HookPosts, Sends, Outcomes
  <2>3. CallsOK' /\ CallsInv'
    BY <1>1, <1>7, <2>2, HookRequestKeeps DEF HookPosts
  <2> QED BY <2>1, <2>3 DEF ClientsInv
<1>8. ASSUME NEW h \in Hooks, HookExits(h) PROVE ClientsInv'
  <2>1. HooksOK' /\ (~exposed' => SessionInv')
    <3>1. "exited" \in HookPlaces
      BY DEF HookPlaces
    <3> QED BY <1>1, <1>8, <3>1, HookPasses DEF HookExits
  <2>2. "unsent" \in Outcomes /\ request' = [request EXCEPT ![h] = "unsent"]
    BY <1>8 DEF HookExits, Outcomes
  <2>3. CallsOK' /\ CallsInv'
    BY <1>1, <1>8, <2>2, HookRequestKeeps DEF HookExits
  <2> QED BY <2>1, <2>3 DEF ClientsInv
<1>9. ASSUME NEW c \in Calls, AsksSearch(c) \/ AsksSave(c) PROVE ClientsInv'
  <2>1. PICK tool \in Tools : Asked(c, tool)
    BY <1>9 DEF AsksSearch, AsksSave, Tools
  <2>2. UNCHANGED <<sessionFile, ids, hook, era, exposed>>
    BY <2>1 DEF Asked
  <2> QED BY <1>1, <1>4, <2>1, <2>2, AskedKeeps DEF ClientsInv
<1>10. ASSUME NEW c \in Calls, ToolStep(c) PROVE ClientsInv'
  <2>1. UNCHANGED <<sessionFile, ids, hook, era, exposed>>
    BY <1>10 DEF ToolStep, ToolPosts, ToolSucceeds, ToolFails
  <2> QED BY <1>1, <1>4, <1>10, <2>1, PostKeeps, EndKeeps DEF ToolStep, ClientsInv
<1>11. ASSUME NEW r \in Requests, CollectorHandles(r) PROVE ClientsInv'
  BY <1>1, <1>4, <1>11, HandlesKeeps DEF CollectorHandles, ClientsInv
<1>12. CASE CollectorDies
  BY <1>1, <1>4, <1>12, DeathKeeps DEF CollectorDies, ClientsInv
<1>13. CASE CollectorStarts
  <2>1. up' \in BOOLEAN
    BY <1>13, Zenon DEF CollectorStarts
  <2> QED BY <1>1, <1>2, <1>4, <1>13, <2>1, CallsRest DEF CollectorStarts, ClientsInv
<1>14. CASE FileLost
  <2>1. HooksOK' /\ (~exposed' => SessionInv')
    BY <1>1, <1>14, LossKeeps
  <2>2. accidents' \in 0 .. MaxAccidents /\ UNCHANGED <<call, request, up>>
    BY <1>2, <1>14, ClientsAssumption DEF FileLost
  <2> QED BY <1>1, <1>2, <2>1, <2>2, CallsRest DEF ClientsInv
<1>15. CASE UNCHANGED vars
  BY <1>3, <1>4, <1>15 DEF vars, ClientsInv
<1> QED BY <1>5, <1>6, <1>7, <1>8, <1>9, <1>10, <1>11, <1>12, <1>13, <1>14, <1>15 DEF Next, HookStep

\* What every reachable state satisfies: who knows an id of the session that is
\* on, and what has become of each attempt of each call.
THEOREM ClientsInvariant == Spec => []ClientsInv
BY InitKeeps, StepKeepsInvariant, PTL DEF Spec

-----------------------------------------------------------------------------
(* The properties. *)

\* Any number of hooks that run one after the other, or read beside each other,
\* send the events of one session under one id, whichever of them draws it.
THEOREM SessionsStayTogether == Spec => []SessionsAgree
<1>1. ClientsInv => SessionsAgree
  BY DEF ClientsInv, SessionInv, SessionsAgree
<1> QED BY <1>1, ClientsInvariant, PTL

LEMMA InvGivesTypes ==
  ASSUME ClientsInv
  PROVE  ClientsTypeOK
<1>1. ids \in 0 .. Cardinality(Hooks)
  <2>1. IsFiniteSet(Drawn) /\ Cardinality(Drawn) <= Cardinality(Hooks) /\ Cardinality(Drawn) \in Nat
        /\ Cardinality(Hooks) \in Nat
    BY FS_Subset, FS_CardinalityType, ClientsAssumption DEF Drawn
  <2> QED BY <2>1 DEF ClientsInv, HooksOK
<1>2. ASSUME NEW c \in Calls, call[c].at = "wait" PROVE request[<<c, call[c].attempt>>] # "unsent"
  <2>1. call[c].attempt \in Attempts
    BY <1>2 DEF ClientsInv, CallsOK, CallsInv, CallInv, CallOK, Attempts
  <2> QED BY <1>2, <2>1 DEF ClientsInv, CallsInv, CallInv
<1> QED BY <1>1, <1>2 DEF ClientsInv, HooksOK, CallsOK, HookPlaces, CallPlaces, Outcomes, ClientsTypeOK

LEMMA InvGivesAccounts ==
  ASSUME ClientsInv
  PROVE  SavedIsStored /\ DuplicatesAreUnanswered
<1>1. ASSUME NEW c \in Calls, call[c].at = "done", call[c].tool # "search"
      PROVE  call[c].attempt \in StoredFor(c)
  <2>1. call[c].attempt \in Attempts
    BY <1>1 DEF ClientsInv, CallsOK, CallsInv, CallInv, CallOK, Attempts
  <2> QED BY <1>1, <2>1 DEF ClientsInv, CallsInv, CallInv, StoredFor
<1>2. ASSUME NEW c \in Calls PROVE Cardinality(StoredFor(c)) <= call[c].unanswered + 1
  <2>1. StoredFor(c) \subseteq Loose(c) \cup {call[c].attempt}
    BY DEF StoredFor, Loose
  <2>2. IsFiniteSet(Loose(c)) /\ Cardinality(Loose(c)) \in Nat
    BY LooseIsFinite
  <2>3. IsFiniteSet(Loose(c) \cup {call[c].attempt})
        /\ Cardinality(Loose(c) \cup {call[c].attempt})
             = IF call[c].attempt \in Loose(c) THEN Cardinality(Loose(c)) ELSE Cardinality(Loose(c)) + 1
    BY <2>2, FS_AddElement
  <2>4. Cardinality(Loose(c) \cup {call[c].attempt}) <= Cardinality(Loose(c)) + 1
    BY <2>2, <2>3
  <2>5. Cardinality(StoredFor(c)) <= Cardinality(Loose(c) \cup {call[c].attempt})
        /\ Cardinality(StoredFor(c)) \in Nat /\ Cardinality(Loose(c) \cup {call[c].attempt}) \in Nat
    BY <2>1, <2>3, FS_Subset, FS_CardinalityType
  <2>6. Cardinality(Loose(c)) <= call[c].unanswered /\ call[c].unanswered \in Nat
    BY DEF ClientsInv, CallsOK, CallsInv, CallInv
  <2> QED BY <2>2, <2>4, <2>5, <2>6
<1> QED BY <1>1, <1>2 DEF SavedIsStored, DuplicatesAreUnanswered

\* Whatever attempts of a call are refused, lost or answered too late: a success
\* has stored its record, and each surplus record is owed to an attempt that was
\* given up unanswered.
THEOREM SavesStayAccounted == Spec => []SavesAreAccounted
<1>1. ClientsInv => SavesAreAccounted
  BY InvGivesTypes, InvGivesAccounts DEF SavesAreAccounted
<1> QED BY <1>1, ClientsInvariant, PTL
===============================================================================
