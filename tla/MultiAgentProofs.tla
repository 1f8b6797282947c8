-------------------------- MODULE MultiAgentProofs --------------------------
(***************************************************************************)
(* For any authorities, and however coordinators and Hosts come and go:    *)
(* the agent graph stays within the authority it was created with, and it  *)
(* tells the truth.                                                        *)
(*                                                                         *)
(* Every operation loads the document first.  So the proof goes in two     *)
(* steps: the document that is loaded keeps the invariant and belongs to   *)
(* the coordinator, and what the operation makes of a document like that   *)
(* keeps it too.                                                           *)
(***************************************************************************)
EXTENDS MultiAgent, FiniteSetTheorems, SequenceTheorems, TLAPS

(* What holds of an agent in a document.                                   *)
AgentInv(d, a) ==
  LET agent == d.agents[a] IN
  /\ agent.parent < a
  /\ agent.status \in {"Running", "Completed", "Failed"} => agent.turns > 0
  /\ agent.status = "Running" => agent.by = d.owner
  /\ agent.turns <= d.budget.turns
  /\ agent.depth <= d.budget.depth
  /\ IF agent.parent = Root
       THEN agent.depth = 1 /\ agent.grants \subseteq d.budget.grants
       ELSE LET parent == d.agents[agent.parent] IN
            /\ agent.depth = parent.depth + 1
            /\ agent.grants \subseteq parent.grants

DocumentInv(d) ==
  /\ d \in SessionDocument
  /\ Len(d.agents) <= d.budget.agents
  /\ d.total <= d.budget.total
  /\ IsFiniteSet(TurnsStarted(d)) /\ d.total = Cardinality(TurnsStarted(d))
  /\ \A a \in Agents(d) : AgentInv(d, a)

(* The branches of c are quiet in d.                                       *)
Quiet(d, c) ==
  /\ c \subseteq Agents(d)
  /\ \A a \in c : \A b \in Branch(d, a) : d.agents[b].status = "Interrupted"

Tasks == [phase : {"idle", "start", "model"}, agent : Nat, turn : Nat]

TaskIsShown(d, tk) ==
  tk.phase = "model" => /\ tk.agent \in Agents(d)
                        /\ d.agents[tk.agent].status = "Running"
                        /\ d.agents[tk.agent].turns = tk.turn

MAIInv ==
  /\ document # NoDocument => DocumentInv(document) /\ document.owner <= instance
  /\ instance \in 1 .. MaxInstances
  /\ up \in BOOLEAN
  /\ authority \in Authorities
  /\ task \in Tasks
  /\ Quiet(document, cut)
  /\ TaskIsShown(document, task)
----------------------------------------------------------------------------
LEMMA DocumentParts ==
  ASSUME NEW d \in SessionDocument
  PROVE  /\ d = [owner |-> d.owner, budget |-> d.budget, total |-> d.total, agents |-> d.agents]
         /\ d.owner \in Nat /\ d.budget \in Authority /\ d.total \in Nat
         /\ d.agents \in Seq(StoredAgent) /\ Len(d.agents) \in Nat
         /\ Agents(d) = 1 .. Len(d.agents)
         /\ \A a \in Agents(d) : /\ d.agents[a] \in StoredAgent /\ a \in Nat \ {0}
                                 /\ d.agents[a].turns \in Nat
<1>1. /\ d = [owner |-> d.owner, budget |-> d.budget, total |-> d.total, agents |-> d.agents]
      /\ d.owner \in Nat /\ d.budget \in Authority /\ d.total \in Nat
      /\ d.agents \in Seq(StoredAgent)
  BY DEF SessionDocument
<1>2. Len(d.agents) \in Nat /\ Agents(d) = 1 .. Len(d.agents)
  BY <1>1 DEF Agents
<1>3. \A a \in Agents(d) : d.agents[a] \in StoredAgent /\ a \in Nat \ {0}
  BY <1>1, <1>2
<1> QED
  BY <1>1, <1>2, <1>3 DEF StoredAgent

LEMMA NoAgents == Agents(NoDocument) = {} /\ Agents(NewDocument) = {}
BY DEF Agents, NoDocument, NewDocument

(* The parent of an agent is the root or an agent.                         *)
LEMMA ParentIsThere ==
  ASSUME NEW d, DocumentInv(d), NEW a \in Agents(d)
  PROVE  /\ d.agents[a].parent \in Nat
         /\ d.agents[a].parent # Root => d.agents[a].parent \in Agents(d)
<1>1. Agents(d) = 1 .. Len(d.agents) /\ Len(d.agents) \in Nat /\ d.agents[a] \in StoredAgent
  BY DocumentParts DEF DocumentInv
<1>2. d.agents[a].parent < a
  BY DEF DocumentInv, AgentInv
<1>3. d.agents[a].parent \in Nat
  BY <1>1 DEF StoredAgent
<1> QED
  BY <1>1, <1>2, <1>3 DEF Root

(* Documents with the same parents have the same branches.                 *)
LEMMA SameBranches ==
  ASSUME NEW d, NEW e, Agents(e) = Agents(d),
         \A b \in Agents(d) : e.agents[b].parent = d.agents[b].parent
  PROVE  \A a : Branch(e, a) = Branch(d, a)
<1>1. \A T : Children(e, T) = Children(d, T)
  BY DEF Children
<1> QED
  BY <1>1 DEF Branch

LEMMA TurnsAre ==
  ASSUME NEW d, NEW a, NEW n
  PROVE  <<a, n>> \in TurnsStarted(d) <=> a \in Agents(d) /\ n \in 1 .. d.agents[a].turns
BY DEF TurnsStarted

LEMMA TurnsArePairs ==
  ASSUME NEW d, NEW p \in TurnsStarted(d)
  PROVE  p = <<p[1], p[2]>>
BY DEF TurnsStarted

(* Statuses change, and the tree and its turns do not.                     *)
LEMMA StatusStep ==
  ASSUME NEW d, DocumentInv(d), NEW e \in SessionDocument,
         e.budget = d.budget, e.total = d.total, Agents(e) = Agents(d),
         \A a \in Agents(d) : /\ e.agents[a].parent = d.agents[a].parent
                              /\ e.agents[a].depth = d.agents[a].depth
                              /\ e.agents[a].turns = d.agents[a].turns
                              /\ e.agents[a].grants = d.agents[a].grants
                              /\ e.agents[a].status = "Running" => e.agents[a].by = e.owner
                              /\ e.agents[a].status \in {"Running", "Completed", "Failed"} =>
                                   d.agents[a].status \in {"Running", "Completed", "Failed"}
  PROVE  DocumentInv(e) /\ \A a : Branch(e, a) = Branch(d, a)
<1>1. /\ Agents(d) = 1 .. Len(d.agents) /\ Agents(e) = 1 .. Len(e.agents)
      /\ Len(d.agents) \in Nat /\ Len(e.agents) \in Nat
  BY DocumentParts DEF DocumentInv
<1>2. Len(e.agents) = Len(d.agents)
  BY <1>1
<1>3. TurnsStarted(e) = TurnsStarted(d)
  BY DEF TurnsStarted
<1>4. ASSUME NEW a \in Agents(e) PROVE AgentInv(e, a)
  <2>1. AgentInv(d, a) /\ d.agents[a].parent \in Nat
    BY <1>1, DocumentParts DEF DocumentInv, StoredAgent
  <2>2. d.agents[a].parent # Root => d.agents[a].parent \in Agents(d)
    BY <1>1, <2>1 DEF AgentInv, Root
  <2> QED
    BY <2>1, <2>2 DEF AgentInv
<1>5. \A a : Branch(e, a) = Branch(d, a)
  BY SameBranches
<1> QED
  BY <1>2, <1>3, <1>4, <1>5 DEF DocumentInv

(* What an operation has loaded.                                           *)
Fits(d) ==
  /\ DocumentInv(d) /\ d.owner = instance /\ Contains(d.budget, authority)
  /\ Quiet(d, cut)

LEMMA RecoveredInv ==
  ASSUME MAIInv, document # NoDocument
  PROVE  /\ DocumentInv(Recovered(document)) /\ Recovered(document).owner = instance
         /\ Recovered(document).budget = document.budget
         /\ Quiet(Recovered(document), cut)
         /\ Recovered(document) # NoDocument
         /\ Agents(Recovered(document)) = Agents(document)
         /\ document.owner = instance => Recovered(document) = document
<1> DEFINE e == Recovered(document)
<1>1. /\ document \in SessionDocument /\ DocumentInv(document) /\ instance \in Nat
  BY InstancesAssumption DEF MAIInv, DocumentInv
<1>2. CASE document.owner = instance
  BY <1>1, <1>2 DEF Recovered, MAIInv
<1>3. CASE document.owner # instance
  <2> DEFINE q == [a \in Agents(document) |-> Abandoned(document.agents[a])]
  <2>1. ASSUME NEW a \in Agents(document)
        PROVE  /\ Abandoned(document.agents[a]) \in StoredAgent
               /\ Abandoned(document.agents[a]).parent = document.agents[a].parent
               /\ Abandoned(document.agents[a]).depth = document.agents[a].depth
               /\ Abandoned(document.agents[a]).turns = document.agents[a].turns
               /\ Abandoned(document.agents[a]).grants = document.agents[a].grants
               /\ Abandoned(document.agents[a]).status # "Running"
               /\ Abandoned(document.agents[a]).status \in {"Completed", "Failed"} =>
                    document.agents[a].status \in {"Running", "Completed", "Failed"}
               /\ document.agents[a].status = "Interrupted" =>
                    Abandoned(document.agents[a]).status = "Interrupted"
    <3>1. PICK g \in StoredAgent : g = document.agents[a]
      BY <1>1, DocumentParts
    <3> QED
      BY <3>1 DEF Abandoned, StoredAgent, Statuses
  <2>2. Agents(document) = 1 .. Len(document.agents) /\ Len(document.agents) \in Nat
    BY <1>1, DocumentParts
  <2>3. /\ q \in Seq(StoredAgent) /\ DOMAIN q = Agents(document)
        /\ \A a \in Agents(document) : q[a] = Abandoned(document.agents[a])
    BY <2>1, <2>2
  <2>4. e = [document EXCEPT !.owner = instance, !.agents = q]
    BY <1>3 DEF Recovered
  <2> HIDE DEF q
  <2>5. /\ e \in SessionDocument /\ e.owner = instance /\ e.budget = document.budget
        /\ e.total = document.total /\ e.agents = q
    BY <1>1, <2>3, <2>4, DocumentParts DEF SessionDocument
  <2>6. Agents(e) = Agents(document)
    BY <2>3, <2>5 DEF Agents
  <2> HIDE DEF e
  <2>7. DocumentInv(e) /\ \A a : Branch(e, a) = Branch(document, a)
    BY <1>1, <2>1, <2>3, <2>5, <2>6, StatusStep
  <2>8. Quiet(e, cut)
    <3>1. \A a \in cut : \A b \in Branch(document, a) :
            b \in Agents(document) /\ document.agents[b].status = "Interrupted"
      BY DEF MAIInv, Quiet, Branch
    <3>2. cut \subseteq Agents(document)
      BY DEF MAIInv, Quiet
    <3> QED
      BY <2>1, <2>3, <2>5, <2>6, <2>7, <3>1, <3>2 DEF Quiet
  <2>9. e # NoDocument
    <3>1. NoDocument.owner = 0
      BY DEF NoDocument
    <3> QED
      BY <2>5, <3>1 DEF MAIInv
  <2> QED
    BY <1>3, <2>5, <2>6, <2>7, <2>8, <2>9 DEF e
<1> QED
  BY <1>2, <1>3

LEMMA LoadedFits ==
  ASSUME MAIInv, Loads
  PROVE  Fits(Loaded) /\ (document # NoDocument => Agents(Loaded) = Agents(document))
<1>1. CASE document # NoDocument
  BY <1>1, RecoveredInv DEF Fits, Loaded, Loads, AuthorityFits
<1>2. CASE document = NoDocument
  <2> DEFINE d == NewDocument
  <2>1. authority \in Authority /\ instance \in Nat /\ cut = {}
    BY <1>2, AuthoritiesAssumption, InstancesAssumption, NoAgents DEF MAIInv, Quiet
  <2>2. d \in SessionDocument /\ d.owner = instance /\ d.budget = authority /\ d.total = 0
        /\ d.agents = <<>> /\ Len(d.agents) = 0
    BY <2>1 DEF NewDocument, SessionDocument
  <2>3. TurnsStarted(d) = {}
    BY NoAgents DEF TurnsStarted
  <2>4. DocumentInv(d)
    BY <2>1, <2>2, <2>3, NoAgents, FS_EmptySet DEF DocumentInv, Authority
  <2>5. Contains(d.budget, authority)
    BY <2>1, <2>2 DEF Contains, Authority
  <2> QED
    BY <1>2, <2>1, <2>2, <2>4, <2>5 DEF Fits, Loaded, Quiet
<1> QED
  BY <1>1, <1>2----------------------------------------------------------------------------
LEMMA FitsFacts ==
  ASSUME NEW d, Fits(d), MAIInv
  PROVE  /\ d \in SessionDocument /\ DocumentInv(d) /\ d.owner = instance
         /\ instance \in Nat \ {0} /\ d.agents \in Seq(StoredAgent)
         /\ Agents(d) = 1 .. Len(d.agents) /\ Len(d.agents) \in Nat /\ d.total \in Nat
         /\ d.budget \in Authority /\ authority \in Authority
         /\ authority.agents <= d.budget.agents /\ authority.depth <= d.budget.depth
         /\ authority.turns <= d.budget.turns /\ authority.total <= d.budget.total
         /\ authority.grants \subseteq d.budget.grants
         /\ authority.agents \in Nat /\ authority.depth \in Nat
         /\ authority.turns \in Nat /\ authority.total \in Nat
         /\ d.budget.agents \in Nat /\ d.budget.depth \in Nat
         /\ d.budget.turns \in Nat /\ d.budget.total \in Nat
<1>1. d \in SessionDocument /\ DocumentInv(d) /\ d.owner = instance
  BY DEF Fits, DocumentInv
<1>2. instance \in Nat \ {0} /\ authority \in Authority
  BY InstancesAssumption, AuthoritiesAssumption DEF MAIInv
<1>3. d.budget \in Authority
  BY <1>1, DocumentParts
<1>4. \A b \in Authority : /\ b.agents \in Nat /\ b.depth \in Nat
                           /\ b.turns \in Nat /\ b.total \in Nat
  BY DEF Authority
<1>5. Contains(d.budget, authority)
  BY DEF Fits
<1> QED
  BY <1>1, <1>2, <1>3, <1>4, <1>5, DocumentParts DEF Contains

(* The step of an operation on the document that it has loaded.            *)
LEMMA StoredInv ==
  ASSUME MAIInv, document' # NoDocument, DocumentInv(document'), document'.owner = instance,
         UNCHANGED <<instance, up, authority>>,
         task' \in Tasks, Quiet(document', cut'), TaskIsShown(document', task')
  PROVE  MAIInv'
<1>1. instance \in Nat
  BY InstancesAssumption DEF MAIInv
<1>2. document'.owner <= instance'
  BY <1>1
<1> QED
  BY <1>2 DEF MAIInv

LEMMA OwnedIsDocument ==
  ASSUME MAIInv, NEW e, e.owner = instance
  PROVE  e # NoDocument
BY InstancesAssumption DEF MAIInv, NoDocument

(* A branch has the children of its agents.                                *)
LEMMA BranchIsClosed ==
  ASSUME NEW d, NEW a \in Agents(d)
  PROVE  /\ a \in Branch(d, a) /\ Branch(d, a) \subseteq Agents(d)
         /\ Children(d, Branch(d, a)) \subseteq Branch(d, a)
<1>1. a \in Branch(d, a) /\ Branch(d, a) \subseteq Agents(d)
  BY DEF Branch
<1>2. ASSUME NEW b \in Children(d, Branch(d, a)) PROVE b \in Branch(d, a)
  <2>1. b \in Agents(d) /\ d.agents[b].parent \in Branch(d, a)
    BY DEF Children
  <2>2. ASSUME NEW T \in SUBSET Agents(d), a \in T, Children(d, T) \subseteq T
        PROVE  b \in T
    <3>1. d.agents[b].parent \in T
      BY <2>1, <2>2 DEF Branch
    <3> QED
      BY <2>1, <2>2, <3>1 DEF Children
  <2> QED
    BY <2>1, <2>2 DEF Branch
<1> QED
  BY <1>1, <1>2

LEMMA SpawnInv ==
  ASSUME MAIInv, NEW p \in Nat, NEW grants \in SUBSET GrantKinds, Spawn(p, grants)
  PROVE  MAIInv'
<1> DEFINE n == Len(Loaded.agents) + 1
           g == [parent |-> p, depth |-> ParentDepth(Loaded, p) + 1, by |-> 0,
                 status |-> "Pending", turns |-> 0, grants |-> grants]
<1>1. PICK d : d = Loaded
  OBVIOUS
<1>2. /\ Fits(d) /\ SpawnAllowed(d, p, grants) /\ task' = Starting(n)
      /\ UNCHANGED <<instance, up, authority, cut>>
  BY <1>1, LoadedFits DEF Spawn
<1>3. document' = [d EXCEPT !.agents = Append(d.agents, g)]
  BY <1>1 DEF Spawn
<1>4. /\ d \in SessionDocument /\ DocumentInv(d) /\ d.owner = instance
      /\ instance \in Nat \ {0} /\ d.agents \in Seq(StoredAgent)
      /\ Agents(d) = 1 .. Len(d.agents) /\ Len(d.agents) \in Nat /\ d.total \in Nat
      /\ d.budget \in Authority /\ authority \in Authority
      /\ authority.agents <= d.budget.agents /\ authority.depth <= d.budget.depth
      /\ authority.grants \subseteq d.budget.grants
      /\ authority.agents \in Nat /\ authority.depth \in Nat
      /\ authority.turns \in Nat /\ authority.total \in Nat
      /\ d.budget.agents \in Nat /\ d.budget.depth \in Nat
      /\ d.budget.turns \in Nat /\ d.budget.total \in Nat
  BY <1>2, FitsFacts
<1>5. /\ p = Root \/ (p \in Agents(d) /\ d.agents[p].status # "Interrupted")
      /\ Len(d.agents) < authority.agents /\ ParentDepth(d, p) + 1 <= authority.depth
      /\ grants \subseteq ParentGrants(d, p)
  BY <1>2 DEF SpawnAllowed, ParentAvailable
<1>6. ParentDepth(d, p) \in Nat
  BY <1>4, <1>5, DocumentParts DEF ParentDepth, StoredAgent
<1>7. /\ g \in StoredAgent /\ g.parent = p /\ g.depth = ParentDepth(d, p) + 1
      /\ g.status = "Pending" /\ g.turns = 0 /\ g.grants = grants
  BY <1>1, <1>6 DEF StoredAgent, Statuses
<1>8. n = Len(d.agents) + 1 /\ n \in Nat
  BY <1>1, <1>4
<1> HIDE DEF g, n
<1> DEFINE q == Append(d.agents, g)
<1>9. /\ q \in Seq(StoredAgent) /\ Len(q) = n /\ q[n] = g
      /\ \A a \in 1 .. Len(d.agents) : q[a] = d.agents[a]
  BY <1>4, <1>7, <1>8, AppendProperties
<1>10. document' = [d EXCEPT !.agents = q]
  BY <1>3
<1> HIDE DEF q
<1>11. PICK e : e = document'
  OBVIOUS
<1>12. /\ e \in SessionDocument /\ e.owner = instance /\ e.budget = d.budget
       /\ e.total = d.total /\ e.agents = q /\ Agents(e) = 1 .. n
       /\ Agents(e) = Agents(d) \cup {n} /\ n \notin Agents(d)
  <2>1. /\ e \in SessionDocument /\ e.owner = instance /\ e.budget = d.budget
        /\ e.total = d.total /\ e.agents = q
    BY <1>4, <1>9, <1>10, <1>11, DocumentParts DEF SessionDocument
  <2>2. Agents(e) = 1 .. n
    BY <1>9, <2>1 DEF Agents
  <2> QED
    BY <1>4, <1>8, <2>1, <2>2
<1>13. TurnsStarted(e) = TurnsStarted(d)
  <2>1. \A a \in Agents(d) : e.agents[a] = d.agents[a]
    BY <1>4, <1>9, <1>12
  <2>2. e.agents[n].turns = 0
    BY <1>7, <1>9, <1>12
  <2>3. ASSUME NEW a, NEW k
        PROVE  <<a, k>> \in TurnsStarted(e) <=> <<a, k>> \in TurnsStarted(d)
    <3>1. <<a, k>> \in TurnsStarted(e) <=> a \in Agents(e) /\ k \in 1 .. e.agents[a].turns
      BY TurnsAre
    <3>2. <<a, k>> \in TurnsStarted(d) <=> a \in Agents(d) /\ k \in 1 .. d.agents[a].turns
      BY TurnsAre
    <3>3. a = n => ~(k \in 1 .. e.agents[a].turns)
      BY <2>2
    <3> QED
      BY <1>12, <2>1, <3>1, <3>2, <3>3
  <2> QED
    BY <2>3, TurnsArePairs
<1>14. ASSUME NEW a \in Agents(e) PROVE AgentInv(e, a)
  <2>1. CASE a \in Agents(d)
    <3>1. AgentInv(d, a) /\ e.agents[a] = d.agents[a] /\ d.agents[a].parent \in Nat
      BY <1>4, <1>9, <1>12, <2>1, DocumentParts DEF DocumentInv, StoredAgent
    <3>2. d.agents[a].parent # Root =>
            d.agents[a].parent \in Agents(d) /\ e.agents[d.agents[a].parent] = d.agents[d.agents[a].parent]
      <4>1. d.agents[a].parent # Root => d.agents[a].parent \in Agents(d)
        BY <1>4, <2>1, ParentIsThere
      <4>2. \A b \in Agents(d) : e.agents[b] = d.agents[b]
        BY <1>4, <1>9, <1>12
      <4> QED
        BY <4>1, <4>2
    <3>3. e.owner = d.owner /\ e.budget = d.budget
      BY <1>4, <1>12
    <3> QED
      BY <3>1, <3>2, <3>3 DEF AgentInv
  <2>2. CASE a = n
    <3>1. e.agents[a] = g /\ p < n
      BY <1>4, <1>5, <1>8, <1>9, <1>12, <2>2 DEF Root
    <3>2. /\ g.status = "Pending" /\ g.turns <= e.budget.turns /\ g.depth <= e.budget.depth
      BY <1>4, <1>5, <1>6, <1>7, <1>12
    <3>3. CASE p = Root
      <4>1. g.depth = 1 /\ g.grants \subseteq e.budget.grants
        BY <1>4, <1>5, <1>7, <1>12, <3>3 DEF ParentDepth, ParentGrants
      <4> QED
        BY <1>7, <2>2, <3>1, <3>2, <3>3, <4>1 DEF AgentInv
    <3>4. CASE p # Root
      <4>1. p \in Agents(d) /\ e.agents[p] = d.agents[p]
        BY <1>4, <1>5, <1>9, <1>12, <3>4
      <4>2. g.depth = e.agents[p].depth + 1 /\ g.grants \subseteq e.agents[p].grants
        BY <1>5, <1>7, <3>4, <4>1 DEF ParentDepth, ParentGrants
      <4> QED
        BY <1>7, <2>2, <3>1, <3>2, <3>4, <4>2 DEF AgentInv
    <3> QED
      BY <3>3, <3>4
  <2> QED
    BY <1>12, <2>1, <2>2
<1>15. DocumentInv(e)
  <2>1. Len(e.agents) <= e.budget.agents
    BY <1>4, <1>5, <1>8, <1>9, <1>12
  <2> QED
    BY <1>4, <1>12, <1>13, <1>14, <2>1 DEF DocumentInv
<1>16. Quiet(e, cut)
  <2>1. Quiet(d, cut)
    BY <1>2 DEF Fits
  <2>2. ASSUME NEW a \in cut, NEW b \in Branch(e, a)
        PROVE  e.agents[b].status = "Interrupted"
    <3>1. /\ a \in Branch(d, a) /\ Branch(d, a) \subseteq Agents(d)
          /\ Children(d, Branch(d, a)) \subseteq Branch(d, a)
      BY <2>1, BranchIsClosed DEF Quiet
    <3>2. p \notin Branch(d, a)
      BY <1>4, <1>5, <2>1, <3>1 DEF Quiet, Root
    <3>3. ASSUME NEW c \in Children(e, Branch(d, a)) PROVE c \in Branch(d, a)
      <4>1. c \in Agents(e) /\ e.agents[c].parent \in Branch(d, a)
        BY DEF Children
      <4>2. c # n
        BY <1>7, <1>9, <1>12, <3>2, <4>1
      <4>3. c \in Agents(d) /\ d.agents[c].parent \in Branch(d, a)
        BY <1>4, <1>9, <1>12, <4>1, <4>2
      <4> QED
        BY <3>1, <4>3 DEF Children
    <3>4. b \in Branch(d, a)
      BY <1>12, <3>1, <3>3 DEF Branch
    <3> QED
      BY <1>4, <1>9, <1>12, <2>1, <3>1, <3>4 DEF Quiet
  <2> QED
    BY <1>12, <2>1, <2>2 DEF Quiet
<1>17. task' \in Tasks /\ TaskIsShown(e, task')
  BY <1>2, <1>8 DEF Starting, Tasks, TaskIsShown
<1>18. e # NoDocument
  BY <1>12, OwnedIsDocument
<1> QED
  BY <1>2, <1>11, <1>12, <1>15, <1>16, <1>17, <1>18, StoredInv

LEMMA StartTurnInv ==
  ASSUME MAIInv, StartTurn
  PROVE  MAIInv'
<1> DEFINE a == task.agent
<1>1. PICK d : d = Loaded
  OBVIOUS
<1>2. /\ Fits(d) /\ StartAllowed(d, a) /\ task' = InModel(a, d.agents[a].turns + 1)
      /\ document' = [d EXCEPT !.agents[a] = Started(d, a), !.total = @ + 1]
      /\ UNCHANGED <<instance, up, authority, cut>>
  BY <1>1, LoadedFits DEF StartTurn
<1>3. /\ d \in SessionDocument /\ DocumentInv(d) /\ d.owner = instance
      /\ instance \in Nat \ {0} /\ d.agents \in Seq(StoredAgent)
      /\ Agents(d) = 1 .. Len(d.agents) /\ Len(d.agents) \in Nat /\ d.total \in Nat
      /\ d.budget \in Authority /\ authority \in Authority
      /\ authority.turns <= d.budget.turns /\ authority.total <= d.budget.total
      /\ authority.agents \in Nat /\ authority.depth \in Nat
      /\ authority.turns \in Nat /\ authority.total \in Nat
      /\ d.budget.agents \in Nat /\ d.budget.depth \in Nat
      /\ d.budget.turns \in Nat /\ d.budget.total \in Nat
  BY <1>2, FitsFacts
<1>4. /\ a \in Agents(d) /\ d.total < authority.total
      /\ d.agents[a].status \notin {"Running", "Interrupted"}
      /\ d.agents[a].turns < authority.turns
  BY <1>2 DEF StartAllowed
<1> HIDE DEF a
<1> DEFINE k == d.agents[a].turns + 1
           g == Started(d, a)
           q == [d.agents EXCEPT ![a] = g]
<1>5. d.agents[a] \in StoredAgent /\ d.agents[a].turns \in Nat /\ k \in Nat \ {0}
  <2>1. d.agents[a] \in StoredAgent /\ d.agents[a].turns \in Nat
    BY <1>3, <1>4, DocumentParts
  <2> QED
    BY <2>1
<1>6. /\ g \in StoredAgent /\ g.parent = d.agents[a].parent /\ g.depth = d.agents[a].depth
      /\ g.grants = d.agents[a].grants /\ g.turns = k /\ g.status = "Running"
      /\ g.by = instance
  <2>1. PICK x \in StoredAgent : x = d.agents[a]
    BY <1>5
  <2> QED
    BY <1>3, <1>5, <2>1 DEF Started, StoredAgent, Statuses
<1>7. document' = [d EXCEPT !.agents = q, !.total = d.total + 1]
  BY <1>2, <1>3, DocumentParts
<1> HIDE DEF g, k
<1>8. /\ q \in Seq(StoredAgent) /\ Len(q) = Len(d.agents) /\ q[a] = g
      /\ \A b \in Agents(d) : b # a => q[b] = d.agents[b]
  BY <1>3, <1>4, <1>6
<1> HIDE DEF q
<1>9. PICK e : e = document'
  OBVIOUS
<1>10. /\ e \in SessionDocument /\ e.owner = instance /\ e.budget = d.budget
       /\ e.total = d.total + 1 /\ e.agents = q /\ Agents(e) = Agents(d)
  <2>1. /\ e \in SessionDocument /\ e.owner = instance /\ e.budget = d.budget
        /\ e.total = d.total + 1 /\ e.agents = q
    <3>1. d.total + 1 \in Nat
      BY <1>3
    <3>2. e = [owner |-> d.owner, budget |-> d.budget, total |-> d.total + 1, agents |-> q]
      <4>1. d = [owner |-> d.owner, budget |-> d.budget, total |-> d.total, agents |-> d.agents]
        BY <1>3, DocumentParts
      <4> QED
        BY <1>7, <1>9, <4>1
    <3> QED
      BY <1>3, <1>8, <3>1, <3>2, DocumentParts DEF SessionDocument
  <2> QED
    BY <1>3, <1>8, <2>1, DocumentParts
<1>11. /\ TurnsStarted(e) = TurnsStarted(d) \cup {<<a, k>>}
       /\ <<a, k>> \notin TurnsStarted(d)
  <2>1. \A b \in Agents(d) : b # a => e.agents[b] = d.agents[b]
    BY <1>8, <1>10
  <2>2. e.agents[a].turns = k
    BY <1>6, <1>8, <1>10
  <2>3. /\ \A j : j \in 1 .. k <=> j \in 1 .. d.agents[a].turns \/ j = k
        /\ k \notin 1 .. d.agents[a].turns
    BY <1>5 DEF k
  <2>4. ASSUME NEW b, NEW j
        PROVE  <<b, j>> \in TurnsStarted(e) <=> <<b, j>> \in TurnsStarted(d) \/ (b = a /\ j = k)
    <3>1. <<b, j>> \in TurnsStarted(e) <=> b \in Agents(e) /\ j \in 1 .. e.agents[b].turns
      BY TurnsAre
    <3>2. <<b, j>> \in TurnsStarted(d) <=> b \in Agents(d) /\ j \in 1 .. d.agents[b].turns
      BY TurnsAre
    <3> QED
      BY <1>4, <1>10, <2>1, <2>2, <2>3, <3>1, <3>2
  <2>5. <<a, k>> \notin TurnsStarted(d)
    BY <2>3, TurnsAre
  <2> QED
    BY <2>4, <2>5, TurnsArePairs
<1>12. IsFiniteSet(TurnsStarted(e)) /\ Cardinality(TurnsStarted(e)) = e.total
  <2>1. IsFiniteSet(TurnsStarted(d)) /\ Cardinality(TurnsStarted(d)) = d.total
    BY <1>3 DEF DocumentInv
  <2>2. /\ IsFiniteSet(TurnsStarted(d) \cup {<<a, k>>})
        /\ Cardinality(TurnsStarted(d) \cup {<<a, k>>}) = Cardinality(TurnsStarted(d)) + 1
    BY <1>11, <2>1, FS_AddElement, Zenon
  <2> QED
    BY <1>10, <1>11, <2>1, <2>2
<1>13. ASSUME NEW b \in Agents(e) PROVE AgentInv(e, b)
  <2>1. /\ AgentInv(d, b) /\ d.agents[b].parent \in Nat
        /\ e.agents[b].parent = d.agents[b].parent /\ e.agents[b].depth = d.agents[b].depth
        /\ e.agents[b].grants = d.agents[b].grants
    BY <1>3, <1>6, <1>8, <1>10, DocumentParts DEF DocumentInv, StoredAgent
  <2>2. d.agents[b].parent # Root =>
          /\ d.agents[b].parent \in Agents(d)
          /\ e.agents[d.agents[b].parent].depth = d.agents[d.agents[b].parent].depth
          /\ e.agents[d.agents[b].parent].grants = d.agents[d.agents[b].parent].grants
    <3>1. d.agents[b].parent # Root => d.agents[b].parent \in Agents(d)
      BY <1>3, <1>10, ParentIsThere
    <3> QED
      BY <1>6, <1>8, <1>10, <3>1
  <2>3. /\ e.agents[b].status \in {"Running", "Completed", "Failed"} => e.agents[b].turns > 0
        /\ e.agents[b].status = "Running" => e.agents[b].by = e.owner
        /\ e.agents[b].turns <= e.budget.turns
    <3>1. CASE b = a
      <4>1. k > 0 /\ k <= e.budget.turns
        <5>1. /\ d.agents[a].turns \in Nat /\ authority.turns \in Nat /\ d.budget.turns \in Nat
              /\ d.agents[a].turns < authority.turns /\ authority.turns <= d.budget.turns
          BY <1>3, <1>4, <1>5
        <5>2. d.agents[a].turns + 1 > 0 /\ d.agents[a].turns + 1 <= d.budget.turns
          BY <5>1
        <5> QED
          BY <1>10, <5>2 DEF k
      <4> QED
        BY <1>6, <1>8, <1>10, <3>1, <4>1
    <3>2. CASE b # a
      BY <1>3, <1>8, <1>10, <2>1, <3>2 DEF AgentInv
    <3> QED
      BY <3>1, <3>2
  <2> QED
    BY <1>10, <2>1, <2>2, <2>3 DEF AgentInv
<1>14. DocumentInv(e)
  <2>1. Len(e.agents) <= e.budget.agents /\ e.total <= e.budget.total
    BY <1>3, <1>4, <1>8, <1>10 DEF DocumentInv
  <2> QED
    BY <1>10, <1>12, <1>13, <2>1 DEF DocumentInv
<1>15. Quiet(e, cut)
  <2>1. Quiet(d, cut)
    BY <1>2 DEF Fits
  <2>2. \A b : Branch(e, b) = Branch(d, b)
    BY <1>6, <1>8, <1>10, SameBranches
  <2>3. \A c \in cut : \A b \in Branch(d, c) : b \in Agents(d) /\ b # a
    BY <1>4, <2>1 DEF Quiet, Branch
  <2> QED
    BY <1>8, <1>10, <2>1, <2>2, <2>3 DEF Quiet
<1>16. task' \in Tasks /\ TaskIsShown(e, task')
  <2>1. task' = InModel(a, k)
    BY <1>2 DEF k
  <2> QED
    BY <1>3, <1>4, <1>5, <1>6, <1>8, <1>10, <2>1 DEF InModel, Tasks, TaskIsShown
<1>17. e # NoDocument
  BY <1>10, OwnedIsDocument
<1> QED
  BY <1>2, <1>9, <1>10, <1>14, <1>15, <1>16, <1>17, StoredInv
LEMMA EndTurnInv ==
  ASSUME MAIInv, NEW status \in {"Completed", "Failed"}, EndTurn(status)
  PROVE  MAIInv'
<1> DEFINE a == task.agent
<1>1. PICK d : d = Loaded
  OBVIOUS
<1>2. /\ Fits(d) /\ a \in Agents(d) /\ d.agents[a].status = "Running" /\ task' = Idle
      /\ document' = [d EXCEPT !.agents[a].status = status, !.agents[a].by = 0]
      /\ UNCHANGED <<instance, up, authority, cut>>
  BY <1>1, LoadedFits DEF EndTurn
<1>3. /\ d \in SessionDocument /\ DocumentInv(d) /\ d.owner = instance
      /\ instance \in Nat \ {0} /\ d.agents \in Seq(StoredAgent)
      /\ Agents(d) = 1 .. Len(d.agents) /\ Len(d.agents) \in Nat
  BY <1>2, FitsFacts
<1>4. PICK g : g = [d.agents[a] EXCEPT !.status = status, !.by = 0]
  OBVIOUS
<1>5. /\ g \in StoredAgent /\ g.parent = d.agents[a].parent /\ g.depth = d.agents[a].depth
      /\ g.grants = d.agents[a].grants /\ g.turns = d.agents[a].turns /\ g.status = status
  <2>1. PICK x \in StoredAgent : x = d.agents[a]
    BY <1>2, <1>3, DocumentParts
  <2> QED
    BY <1>4, <2>1 DEF StoredAgent, Statuses
<1> HIDE DEF a
<1>6. PICK q : q = [d.agents EXCEPT ![a] = g]
  OBVIOUS
<1>7. /\ q \in Seq(StoredAgent) /\ Len(q) = Len(d.agents) /\ q[a] = g
      /\ \A b \in Agents(d) : b # a => q[b] = d.agents[b]
  BY <1>2, <1>3, <1>5, <1>6
<1>8. document' = [d EXCEPT !.agents = q]
  <2>1. d = [owner |-> d.owner, budget |-> d.budget, total |-> d.total, agents |-> d.agents]
    BY <1>3, DocumentParts
  <2>2. q = [d.agents EXCEPT ![a].status = status, ![a].by = 0]
    BY <1>2, <1>3, <1>4, <1>6, DocumentParts
  <2> QED
    BY <1>2, <2>1, <2>2
<1>9. PICK e : e = document'
  OBVIOUS
<1>10. /\ e \in SessionDocument /\ e.owner = instance /\ e.budget = d.budget
       /\ e.total = d.total /\ e.agents = q /\ Agents(e) = Agents(d)
  <2>1. /\ e \in SessionDocument /\ e.owner = instance /\ e.budget = d.budget
        /\ e.total = d.total /\ e.agents = q
    BY <1>3, <1>7, <1>8, <1>9, DocumentParts DEF SessionDocument
  <2> QED
    BY <1>3, <1>7, <2>1, DocumentParts
<1>11. DocumentInv(e) /\ \A b : Branch(e, b) = Branch(d, b)
  <2>1. \A b \in Agents(d) : /\ e.agents[b].parent = d.agents[b].parent
                             /\ e.agents[b].depth = d.agents[b].depth
                             /\ e.agents[b].turns = d.agents[b].turns
                             /\ e.agents[b].grants = d.agents[b].grants
    BY <1>5, <1>7, <1>10
  <2>2. \A b \in Agents(d) : e.agents[b].status = "Running" => e.agents[b].by = e.owner
    BY <1>3, <1>5, <1>7, <1>10 DEF DocumentInv, AgentInv
  <2>3. \A b \in Agents(d) :
          e.agents[b].status \in {"Running", "Completed", "Failed"} =>
            d.agents[b].status \in {"Running", "Completed", "Failed"}
    BY <1>2, <1>7, <1>10 DEF a
  <2> QED
    BY <1>3, <1>10, <2>1, <2>2, <2>3, StatusStep
<1>12. Quiet(e, cut)
  <2>1. Quiet(d, cut)
    BY <1>2 DEF Fits
  <2>2. \A c \in cut : \A b \in Branch(d, c) : b \in Agents(d) /\ b # a
    BY <1>2, <2>1 DEF Quiet, Branch, a
  <2> QED
    BY <1>7, <1>10, <1>11, <2>1, <2>2 DEF Quiet
<1>13. task' \in Tasks /\ TaskIsShown(e, task')
  BY <1>2 DEF Idle, Tasks, TaskIsShown
<1>14. e # NoDocument
  BY <1>10, OwnedIsDocument
<1> QED
  BY <1>2, <1>9, <1>10, <1>11, <1>12, <1>13, <1>14, StoredInv

LEMMA InterruptInv ==
  ASSUME MAIInv, NEW a, NEW recursive \in BOOLEAN, Interrupt(a, recursive)
  PROVE  MAIInv'
<1> DEFINE cut1 == IF recursive THEN cut \cup {a} ELSE cut
<1>1. PICK d : d = Loaded
  OBVIOUS
<1>2. PICK targets : targets = (IF recursive THEN Branch(d, a) ELSE {a})
  OBVIOUS
<1>3. PICK q : q = [b \in Agents(d) |-> IF b \in targets
                      THEN [d.agents[b] EXCEPT !.status = "Interrupted", !.by = 0]
                      ELSE d.agents[b]]
  OBVIOUS
<1>4. /\ Fits(d) /\ a \in Agents(d) /\ task = Idle /\ cut' = cut1
      /\ document' = [d EXCEPT !.agents = q]
      /\ UNCHANGED <<instance, up, authority, task>>
  BY <1>1, <1>2, <1>3, LoadedFits DEF Interrupt
<1>5. /\ d \in SessionDocument /\ DocumentInv(d) /\ d.owner = instance
      /\ instance \in Nat \ {0} /\ d.agents \in Seq(StoredAgent)
      /\ Agents(d) = 1 .. Len(d.agents) /\ Len(d.agents) \in Nat
  BY <1>4, FitsFacts
<1>6. ASSUME NEW b \in Agents(d)
      PROVE  /\ q[b] \in StoredAgent /\ q[b].parent = d.agents[b].parent
             /\ q[b].depth = d.agents[b].depth /\ q[b].turns = d.agents[b].turns
             /\ q[b].grants = d.agents[b].grants
             /\ b \in targets => q[b].status = "Interrupted"
             /\ b \notin targets => q[b] = d.agents[b]
  <2>1. PICK x \in StoredAgent : x = d.agents[b]
    BY <1>5, DocumentParts
  <2>2. b \in targets => q[b] = [x EXCEPT !.status = "Interrupted", !.by = 0]
    BY <1>3, <2>1
  <2>3. b \notin targets => q[b] = d.agents[b]
    BY <1>3
  <2>4. CASE b \in targets
    <3>1. PICK g : g = [x EXCEPT !.status = "Interrupted", !.by = 0]
      OBVIOUS
    <3>2. /\ g \in StoredAgent /\ g.parent = x.parent /\ g.depth = x.depth
          /\ g.turns = x.turns /\ g.grants = x.grants /\ g.status = "Interrupted"
      BY <3>1 DEF StoredAgent, Statuses
    <3>3. q[b] = g
      BY <2>2, <2>4, <3>1
    <3> QED
      BY <2>1, <2>4, <3>2, <3>3
  <2>5. CASE b \notin targets
    BY <2>1, <2>3, <2>5
  <2> QED
    BY <2>4, <2>5
<1>7. q \in Seq(StoredAgent) /\ Len(q) = Len(d.agents)
  <2>1. q \in [Agents(d) -> StoredAgent]
    BY <1>3, <1>6
  <2> QED
    BY <1>5, <2>1
<1>8. PICK e : e = document'
  OBVIOUS
<1>9. /\ e \in SessionDocument /\ e.owner = instance /\ e.budget = d.budget
      /\ e.total = d.total /\ e.agents = q /\ Agents(e) = Agents(d)
  <2>1. /\ e \in SessionDocument /\ e.owner = instance /\ e.budget = d.budget
        /\ e.total = d.total /\ e.agents = q
    BY <1>4, <1>5, <1>7, <1>8, DocumentParts DEF SessionDocument
  <2> QED
    BY <1>5, <1>7, <2>1, DocumentParts
<1>10. DocumentInv(e) /\ \A b : Branch(e, b) = Branch(d, b)
  <2>1. \A b \in Agents(d) : /\ e.agents[b].status = "Running" => e.agents[b].by = e.owner
                             /\ e.agents[b].status \in {"Running", "Completed", "Failed"} =>
                                  d.agents[b].status \in {"Running", "Completed", "Failed"}
    BY <1>5, <1>6, <1>9 DEF DocumentInv, AgentInv
  <2> QED
    BY <1>5, <1>6, <1>9, <2>1, StatusStep
<1>11. Quiet(e, cut1)
  <2>1. Quiet(d, cut)
    BY <1>4 DEF Fits
  <2>2. ASSUME NEW c \in cut1, NEW b \in Branch(d, c)
        PROVE  b \in Agents(d) /\ e.agents[b].status = "Interrupted"
    <3>1. b \in Agents(d)
      BY DEF Branch
    <3>2. CASE c \in cut
      BY <1>6, <1>9, <2>1, <3>1, <3>2 DEF Quiet
    <3>3. CASE recursive /\ c = a
      BY <1>2, <1>6, <1>9, <3>1, <3>3
    <3> QED
      BY <3>1, <3>2, <3>3
  <2>3. cut1 \subseteq Agents(e)
    BY <1>4, <1>9, <2>1 DEF Quiet
  <2> QED
    BY <1>10, <2>2, <2>3 DEF Quiet
<1>12. task' \in Tasks /\ TaskIsShown(e, task')
  BY <1>4 DEF Idle, Tasks, TaskIsShown
<1>13. e # NoDocument
  BY <1>9, OwnedIsDocument
<1> QED
  BY <1>4, <1>8, <1>9, <1>10, <1>11, <1>12, <1>13, StoredInv

(* A load that is refused afterwards, or that nobody hears of.             *)
LEMMA OnlyLoadedInv ==
  ASSUME MAIInv, document' = document \/ document' = OnlyLoaded, task' = Idle,
         UNCHANGED <<instance, up, authority, cut>>
  PROVE  MAIInv'
<1>1. TaskIsShown(document', task') /\ task' \in Tasks
  BY DEF TaskIsShown, Idle, Tasks
<1>2. CASE document' = document
  BY <1>1, <1>2 DEF MAIInv
<1>3. CASE document' = Recovered(document) /\ document # NoDocument
  BY <1>1, <1>3, RecoveredInv, StoredInv
<1> QED
  BY <1>2, <1>3 DEF OnlyLoaded

LEMMA ProcessInv ==
  ASSUME MAIInv, CoordinatorDies \/ CoordinatorRestarts \/ HostDies
  PROVE  MAIInv'
<1>1. instance \in Nat /\ MaxInstances \in Nat
  BY InstancesAssumption DEF MAIInv
<1>2. document # NoDocument => document.owner \in Nat
  BY DEF MAIInv, DocumentInv, SessionDocument
<1>3. CASE CoordinatorDies
  BY <1>3 DEF MAIInv, CoordinatorDies
<1>4. CASE CoordinatorRestarts
  <2>1. /\ instance' \in 1 .. MaxInstances /\ up' \in BOOLEAN
        /\ UNCHANGED <<document, authority, task, cut>>
        /\ document # NoDocument => document.owner <= instance'
    BY <1>1, <1>2, <1>4 DEF CoordinatorRestarts, MAIInv
  <2> QED
    BY <2>1 DEF MAIInv
<1>5. CASE HostDies
  <2>1. /\ instance' \in 1 .. MaxInstances /\ up' \in BOOLEAN /\ authority' \in Authorities
        /\ UNCHANGED <<document, cut>>
        /\ document # NoDocument => document.owner <= instance'
    BY <1>1, <1>2, <1>5 DEF HostDies, MAIInv
  <2>2. task' \in Tasks /\ TaskIsShown(document', task')
    BY <1>5 DEF HostDies, Idle, Tasks, TaskIsShown
  <2> QED
    BY <2>1, <2>2 DEF MAIInv
<1> QED
  BY <1>3, <1>4, <1>5

LEMMA MessageInv ==
  ASSUME MAIInv, NEW a \in Nat, Message(a)
  PROVE  MAIInv'
<1>1. task' \in Tasks /\ TaskIsShown(document', task')
  BY DEF Message, Starting, Tasks, TaskIsShown
<1> QED
  BY <1>1 DEF Message, MAIInv

LEMMA MANextInv ==
  ASSUME MAIInv, MANext
  PROVE  MAIInv'
<1>1. AgentIds \subseteq Nat /\ {Root} \cup AgentIds \subseteq Nat
  BY DEF AgentIds, Root
<1>2. CASE \E p \in {Root} \cup AgentIds, g \in SUBSET GrantKinds : Spawn(p, g)
  BY <1>1, <1>2, SpawnInv
<1>3. CASE \E a \in AgentIds : Message(a)
  BY <1>1, <1>3, MessageInv
<1>4. CASE StartTurn
  BY <1>4, StartTurnInv
<1>5. CASE CompleteTurn \/ FailTurn
  BY <1>5, EndTurnInv DEF CompleteTurn, FailTurn
<1>6. CASE \E a \in AgentIds, r \in BOOLEAN : Interrupt(a, r)
  BY <1>6, InterruptInv
<1>7. CASE Look
  BY <1>7, OnlyLoadedInv DEF Look
<1>8. CASE HostCallFails
  BY <1>8, OnlyLoadedInv DEF HostCallFails
<1>9. CASE CoordinatorDies \/ CoordinatorRestarts \/ HostDies
  BY <1>9, ProcessInv
<1> QED
  BY <1>2, <1>3, <1>4, <1>5, <1>6, <1>7, <1>8, <1>9 DEF MANext

LEMMA MAInitInv == MAInit => MAIInv
<1> SUFFICES ASSUME MAInit PROVE MAIInv
  OBVIOUS
<1>1. /\ document = NoDocument /\ instance = 1 /\ up = TRUE /\ authority \in Authorities
      /\ task = Idle /\ cut = {}
  BY DEF MAInit
<1>2. instance \in 1 .. MaxInstances
  BY <1>1, InstancesAssumption
<1>3. task \in Tasks /\ TaskIsShown(document, task)
  BY <1>1 DEF Idle, Tasks, TaskIsShown
<1>4. Quiet(document, cut)
  BY <1>1 DEF Quiet
<1> QED
  BY <1>1, <1>2, <1>3, <1>4 DEF MAIInv

LEMMA MAInvariant == MAInit /\ [][MANext]_maVars => []MAIInv
<1>1. MAIInv /\ UNCHANGED maVars => MAIInv'
  BY DEF MAIInv, maVars
<1>2. MAIInv /\ [MANext]_maVars => MAIInv'
  BY <1>1, MANextInv
<1> QED
  BY <1>2, MAInitInv, PTL

(* The graph stays within the authority it was created with, whatever      *)
(* Hosts with other budgets continue it and wherever coordinators die: the *)
(* load refuses a Host with more authority, spawn and start_turn count     *)
(* against the authority of the Host, and nothing else makes agents, turns *)
(* or grants.                                                              *)
THEOREM GraphWithinAuthority == MAInit /\ [][MANext]_maVars => []WithinAuthority
<1>1. MAIInv => WithinAuthority
  <2> SUFFICES ASSUME MAIInv, document # NoDocument PROVE WithinAuthority
    BY DEF WithinAuthority
  <2>1. DocumentInv(document)
    BY DEF MAIInv
  <2> QED
    BY <2>1 DEF WithinAuthority, DocumentInv, AgentInv
<1> QED
  BY <1>1, MAInvariant, PTL

(* The stored graph is a forest that tells the truth: no turn of a         *)
(* coordinator that is gone survives the first load of the next one, and   *)
(* no agent of a branch that was interrupted recursively leaves            *)
(* Interrupted, also none that is spawned or recovered later.              *)
THEOREM GraphTellsTheTruth == MAInit /\ [][MANext]_maVars => []GraphIsTrue
<1>1. MAIInv => GraphIsTrue
  <2> SUFFICES ASSUME MAIInv PROVE GraphIsTrue
    OBVIOUS
  <2>1. document # NoDocument => DocumentInv(document) /\ document.owner <= instance
    BY DEF MAIInv
  <2>2. cut \subseteq Nat
    <3>1. Agents(document) \subseteq Nat
      BY <2>1, NoAgents, DocumentParts DEF DocumentInv
    <3> QED
      BY <3>1 DEF MAIInv, Quiet
  <2>3. MATypeOK
    BY <2>1, <2>2 DEF MAIInv, MATypeOK, DocumentInv, AgentInv, Tasks
  <2>4. BranchStaysQuiet
    BY DEF MAIInv, Quiet, BranchStaysQuiet
  <2>5. RunningIsOwned
    BY <2>1 DEF MAIInv, RunningIsOwned, TaskIsShown, DocumentInv, AgentInv
  <2> QED
    BY <2>3, <2>4, <2>5 DEF GraphIsTrue
<1> QED
  BY <1>1, MAInvariant, PTL
====
