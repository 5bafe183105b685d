--------------------------- MODULE DecisionProofs ---------------------------
(***************************************************************************)
(* Theorems about Simulation and the modules it extends: discovery finds   *)
(* every tool, the first rule that matches decides, a threshold may be     *)
(* written as its text, and a simulation reports what it did.              *)
(***************************************************************************)
EXTENDS Simulation, WellFoundedInduction, TLAPS

-----------------------------------------------------------------------------
\* Discovery.

Registration == [way : {"decorator", "scan"}, class : PluginClass]

\* The types of discovery's state.
RegistryTypeOK ==
  /\ found \in Seq(PluginFile)
  /\ files \in Seq(PluginFile)
  /\ queue \in Seq(Registration)
  /\ registry \in [Names -> PluginClass \union {NoPlugin}]
  /\ discovery \in {"running", "complete", "broken"}

\* How many files have been loaded; the last of them may have registrations to make.
Loaded == Len(found) - Len(files)

\* The files still to load are the last ones of those found.
FilesInOrder ==
  /\ Len(files) <= Len(found)
  /\ \A i \in 1 .. Len(files) : files[i] = found[Loaded + i]

\* What is to be registered is of the file loaded last.
QueueOfLast ==
  \A q \in 1 .. Len(queue) :
    /\ Loaded >= 1
    /\ \E c \in 1 .. Len(found[Loaded].classes) : queue[q].class = found[Loaded].classes[c]

\* What is registered is valid, and under its own name.
RegisteredIsValid ==
  \A n \in Names : registry[n] # NoPlugin => registry[n].valid /\ registry[n].name = n

\* A class's name is taken, or the scan of its file has yet to come to it.
NameTaken(c) == registry[c.name] # NoPlugin
ToScan(c) == \E q \in 1 .. Len(queue) : queue[q] = [way |-> "scan", class |-> c]

\* No valid class of a sound file that was loaded is lost.
NoneLost ==
  \A f \in 1 .. Loaded : Sound(found[f]) =>
    \A c \in 1 .. Len(found[f].classes) : found[f].classes[c].valid =>
      \/ NameTaken(found[f].classes[c])
      \/ f = Loaded /\ ToScan(found[f].classes[c])

\* Discovery is complete when there is nothing left to do.
NothingLeft == discovery = "complete" => queue = <<>> /\ files = <<>>

RegistryInv ==
  /\ RegistryTypeOK
  /\ FilesInOrder
  /\ QueueOfLast
  /\ RegisteredIsValid
  /\ NoneLost
  /\ NothingLeft

\* Initially nothing is loaded.
LEMMA RegistryInitially == RegistryInit => RegistryInv
<1> SUFFICES ASSUME RegistryInit
             PROVE  RegistryInv
  OBVIOUS
<1>0. found \in Seq(PluginFile)
  BY FilesAssumption DEF RegistryInit
<1>1. RegistryTypeOK
  BY <1>0 DEF RegistryInit, RegistryTypeOK
<1>2. Loaded = 0
  BY <1>0 DEF RegistryInit, Loaded
<1>3. FilesInOrder
  BY <1>0, <1>2 DEF RegistryInit, FilesInOrder
<1>4. QueueOfLast
  BY DEF RegistryInit, QueueOfLast
<1>5. RegisteredIsValid
  BY DEF RegistryInit, RegisteredIsValid
<1>6. NoneLost
  BY <1>2 DEF NoneLost
<1>7. NothingLeft
  BY DEF RegistryInit, NothingLeft
<1> QED
  BY <1>1, <1>3, <1>4, <1>5, <1>6, <1>7 DEF RegistryInv

\* A file's classes are a sequence, and those that were made are registrations.
LEMMA ByIsSequence ==
  ASSUME NEW way \in {"decorator", "scan"}, NEW classes \in Seq(PluginClass)
  PROVE  /\ By(way, classes) \in Seq(Registration)
         /\ Len(By(way, classes)) = Len(classes)
         /\ \A i \in 1 .. Len(classes) : By(way, classes)[i] = [way |-> way, class |-> classes[i]]
<1>1. DOMAIN classes = 1 .. Len(classes)
  OBVIOUS
<1>2. \A i \in 1 .. Len(classes) : [way |-> way, class |-> classes[i]] \in Registration
  BY DEF Registration
<1> QED
  BY <1>1, <1>2 DEF By

\* What the concatenation of two sequences holds.
LEMMA Concatenation ==
  ASSUME NEW S, NEW s \in Seq(S), NEW t \in Seq(S)
  PROVE  /\ s \o t \in Seq(S)
         /\ Len(s \o t) = Len(s) + Len(t) /\ Len(s) \in Nat /\ Len(t) \in Nat
         /\ \A i \in 1 .. Len(s) : (s \o t)[i] = s[i]
         /\ \A i \in 1 .. Len(t) : (s \o t)[Len(s) + i] = t[i]
OBVIOUS

\* What the beginning of a sequence holds.
LEMMA Beginning ==
  ASSUME NEW S, NEW s \in Seq(S), NEW n \in 0 .. Len(s)
  PROVE  /\ SubSeq(s, 1, n) \in Seq(S)
         /\ Len(SubSeq(s, 1, n)) = n
         /\ \A i \in 1 .. n : SubSeq(s, 1, n)[i] = s[i]
OBVIOUS

\* Loading a file leaves everything of the files before it as it was.
LEMMA LoadKeepsRegistry == RegistryInv /\ LoadFile => RegistryInv'
<1> SUFFICES ASSUME RegistryInv, LoadFile
             PROVE  RegistryInv'
  OBVIOUS
<1> USE DEF RegistryInv
<1>0. /\ found \in Seq(PluginFile) /\ files \in Seq(PluginFile) /\ files # <<>>
      /\ queue = <<>> /\ discovery = "running"
      /\ files' = Tail(files)
      /\ UNCHANGED <<found, registry, discovery>>
  BY DEF LoadFile, RegistryTypeOK
<1>1. /\ Len(files) >= 1 /\ Len(files) \in Nat /\ Len(found) \in Nat
      /\ files' \in Seq(PluginFile) /\ Len(files') = Len(files) - 1
      /\ \A i \in 1 .. Len(files') : files'[i] = files[i + 1]
      /\ Head(files) = files[1]
  BY <1>0
<1>2. Loaded' = Loaded + 1 /\ Loaded \in Nat /\ Loaded' \in 1 .. Len(found)
  BY <1>0, <1>1 DEF Loaded, FilesInOrder
<1>3. FilesInOrder'
  BY <1>0, <1>1, <1>2 DEF FilesInOrder
<1>4. Head(files) = found'[Loaded']
  BY <1>0, <1>1, <1>2 DEF FilesInOrder
<1> DEFINE cs == Head(files).classes
           made == By("decorator", cs)
           scan == By("scan", cs)
<1>5. cs \in Seq(PluginClass) /\ cs = found'[Loaded'].classes
  <2>1. Head(files) \in PluginFile
    BY <1>0, <1>1
  <2> QED
    BY <2>1, <1>4 DEF PluginFile
<1>6. /\ made \in Seq(Registration) /\ Len(made) = Len(cs)
      /\ \A i \in 1 .. Len(cs) : made[i] = [way |-> "decorator", class |-> cs[i]]
      /\ scan \in Seq(Registration) /\ Len(scan) = Len(cs)
      /\ \A i \in 1 .. Len(cs) : scan[i] = [way |-> "scan", class |-> cs[i]]
  BY <1>5, ByIsSequence
<1> HIDE DEF made, scan, cs
<1>7. /\ queue' \in Seq(Registration)
      /\ \A q \in 1 .. Len(queue') : \E c \in 1 .. Len(cs) : queue'[q].class = cs[c]
  <2>1. CASE queue' = made \o scan
    <3>1. /\ queue' \in Seq(Registration) /\ Len(queue') = Len(cs) + Len(cs) /\ Len(cs) \in Nat
          /\ \A i \in 1 .. Len(cs) : queue'[i] = made[i] /\ queue'[Len(cs) + i] = scan[i]
      <4>1. made \in Seq(Registration) /\ scan \in Seq(Registration)
        BY <1>6
      <4>2. /\ made \o scan \in Seq(Registration)
            /\ Len(made \o scan) = Len(made) + Len(scan) /\ Len(made) \in Nat
            /\ \A i \in 1 .. Len(made) : (made \o scan)[i] = made[i]
            /\ \A i \in 1 .. Len(scan) : (made \o scan)[Len(made) + i] = scan[i]
        BY <4>1, Concatenation
      <4>3. Len(made) = Len(cs) /\ Len(scan) = Len(cs)
        BY <1>6
      <4> QED
        BY ONLY <2>1, <4>2, <4>3
    <3>2. ASSUME NEW q \in 1 .. Len(queue')
          PROVE  \E c \in 1 .. Len(cs) : queue'[q].class = cs[c]
      <4>1. CASE q <= Len(cs)
        <5>1. q \in 1 .. Len(cs) /\ queue'[q].class = cs[q]
          <6>1. q \in 1 .. Len(cs)
            BY <4>1, <3>1
          <6>2. queue'[q] = [way |-> "decorator", class |-> cs[q]]
            BY <6>1, <3>1, <1>6
          <6> QED
            BY <6>1, <6>2
        <5> QED
          BY <5>1
      <4>2. CASE q > Len(cs)
        <5>1. q - Len(cs) \in 1 .. Len(cs) /\ Len(cs) + (q - Len(cs)) = q
          BY <4>2, <3>1
        <5>2. queue'[q] = scan[q - Len(cs)]
          BY <5>1, <3>1
        <5>3. queue'[q].class = cs[q - Len(cs)]
          <6>1. queue'[q] = [way |-> "scan", class |-> cs[q - Len(cs)]]
            BY <5>1, <5>2, <1>6
          <6> QED
            BY <6>1
        <5> QED
          BY <5>1, <5>3
      <4> QED
        BY <4>1, <4>2, <3>1
    <3> QED
      BY <3>1, <3>2
  <2>2. CASE \E n \in 0 .. Len(cs) : queue' = SubSeq(made, 1, n)
    <3>1. PICK n \in 0 .. Len(cs) : queue' = SubSeq(made, 1, n)
      BY <2>2
    <3>2. Len(cs) \in Nat /\ n \in 0 .. Len(made)
      BY <1>5, <1>6
    <3>3. /\ queue' \in Seq(Registration) /\ Len(queue') = n
          /\ \A q \in 1 .. n : queue'[q] = made[q]
      BY <3>1, <3>2, <1>6, Beginning
    <3>4. \A q \in 1 .. n : q \in 1 .. Len(cs) /\ queue'[q].class = cs[q]
      <4> SUFFICES ASSUME NEW q \in 1 .. n
                   PROVE  q \in 1 .. Len(cs) /\ queue'[q].class = cs[q]
        OBVIOUS
      <4>1. q \in 1 .. Len(cs)
        BY <3>2
      <4>2. queue'[q] = [way |-> "decorator", class |-> cs[q]]
        BY <4>1, <3>3, <1>6
      <4> QED
        BY <4>1, <4>2
    <3> QED
      BY <3>3, <3>4
  <2> QED
    BY <2>1, <2>2 DEF LoadFile, cs, made, scan
<1>8. RegistryTypeOK'
  BY <1>0, <1>1, <1>7 DEF RegistryTypeOK
<1>9. QueueOfLast'
  <2>1. Loaded' >= 1 /\ cs = found'[Loaded'].classes
    BY <1>0, <1>2, <1>5
  <2> HIDE DEF Loaded
  <2> QED
    BY ONLY <1>7, <2>1 DEF QueueOfLast
<1>10. RegisteredIsValid'
  BY <1>0 DEF RegisteredIsValid
<1>11. NoneLost'
  <2> SUFFICES ASSUME NEW f \in 1 .. Loaded', Sound(found[f]),
                      NEW c \in 1 .. Len(found[f].classes), found[f].classes[c].valid
               PROVE  \/ registry'[found[f].classes[c].name] # NoPlugin
                      \/ f = Loaded' /\ \E q \in 1 .. Len(queue') :
                           queue'[q] = [way |-> "scan", class |-> found[f].classes[c]]
    BY <1>0 DEF NoneLost, NameTaken, ToScan
  <2>1. CASE f = Loaded'
    <3>1. queue' = made \o scan
      BY <2>1, <1>4 DEF Sound, LoadFile, cs, made, scan
    <3>2. /\ Len(queue') = Len(cs) + Len(cs) /\ Len(cs) \in Nat
          /\ \A i \in 1 .. Len(cs) : queue'[Len(cs) + i] = scan[i]
      <4>1. made \in Seq(Registration) /\ scan \in Seq(Registration)
        BY <1>6
      <4>2. /\ Len(made \o scan) = Len(made) + Len(scan) /\ Len(made) \in Nat
            /\ \A i \in 1 .. Len(scan) : (made \o scan)[Len(made) + i] = scan[i]
        BY <4>1, Concatenation
      <4>3. Len(made) = Len(cs) /\ Len(scan) = Len(cs)
        BY <1>6
      <4> QED
        BY ONLY <3>1, <4>2, <4>3
    <3>3. c \in 1 .. Len(cs) /\ queue'[Len(cs) + c] = scan[c]
      BY <3>2, <2>1, <1>0, <1>5
    <3>4. Len(cs) + c \in 1 .. Len(queue')
      BY ONLY <3>2, <3>3
    <3>5. queue'[Len(cs) + c] = [way |-> "scan", class |-> found[f].classes[c]]
      BY <3>3, <3>2, <2>1, <1>0, <1>5, <1>6
    <3> QED
      BY <3>4, <3>5, <2>1
  <2>2. CASE f # Loaded'
    <3>1. f \in 1 .. Loaded
      BY <2>2, <1>2
    <3>2. \/ registry[found[f].classes[c].name] # NoPlugin
          \/ ToScan(found[f].classes[c])
      BY <3>1, <1>0 DEF NoneLost, NameTaken
    <3>3. ~ToScan(found[f].classes[c])
      BY <1>0 DEF ToScan
    <3> QED
      BY <3>2, <3>3, <1>0
  <2> QED
    BY <2>1, <2>2
<1>12. NothingLeft'
  BY <1>0 DEF NothingLeft
<1> QED
  BY <1>8, <1>3, <1>9, <1>10, <1>11, <1>12

\* Making one registration keeps every name that is taken, and takes the name of the class
\* unless that is invalid; what raises is of a file with failures.
LEMMA RegisterKeepsRegistry == RegistryInv /\ RegisterNext => RegistryInv'
<1> SUFFICES ASSUME RegistryInv, RegisterNext
             PROVE  RegistryInv'
  OBVIOUS
<1> USE DEF RegistryInv
<1> DEFINE r == Head(queue)
           raises == r.class.valid /\ ~r.class.builds /\ ~Passed(r)
<1>0. /\ found \in Seq(PluginFile) /\ queue \in Seq(Registration) /\ queue # <<>>
      /\ discovery = "running"
      /\ UNCHANGED <<found, files>>
  BY DEF RegisterNext, RegistryTypeOK
<1>1. /\ Len(queue) >= 1 /\ Len(queue) \in Nat /\ r = queue[1] /\ r \in Registration
      /\ 1 \in 1 .. Len(queue)
  BY <1>0
<1>2. r.class \in PluginClass /\ r.class.name \in Names /\ r.way \in {"decorator", "scan"}
  BY <1>1 DEF Registration, PluginClass
<1>3. Loaded' = Loaded /\ Loaded >= 1 /\ Loaded \in 1 .. Len(found)
  BY <1>0, <1>1 DEF Loaded, QueueOfLast, FilesInOrder, RegistryTypeOK
<1>4. \/ /\ raises
         /\ queue' = <<>>
         /\ discovery' \in {"broken", "running"}
         /\ registry' = registry
      \/ /\ ~raises
         /\ queue' = Tail(queue)
         /\ discovery' = "running"
         /\ IF ~Passed(r) /\ r.class.valid
              THEN registry' = [registry EXCEPT ![r.class.name] = r.class]
              ELSE registry' = registry
  <2> HIDE DEF Passed
  <2>1. CASE raises
    BY <2>1, <1>0 DEF RegisterNext
  <2>2. CASE ~raises
    BY <2>2, <1>0 DEF RegisterNext, Register
  <2> QED
    BY <2>1, <2>2
<1> HIDE DEF r, raises
<1>5. registry' \in [Names -> PluginClass \union {NoPlugin}]
  BY <1>4, <1>2 DEF RegistryTypeOK
<1>6. \A n \in Names : registry[n] # NoPlugin => registry'[n] # NoPlugin
  BY <1>4, <1>2, NoPluginAssumption DEF RegistryTypeOK
<1>7. /\ queue' \in Seq(Registration)
      /\ \A q \in 1 .. Len(queue') : q + 1 \in 1 .. Len(queue) /\ queue'[q] = queue[q + 1]
  <2>1. CASE queue' = <<>>
    BY <2>1
  <2>2. CASE queue' = Tail(queue)
    BY <2>2, <1>0
  <2> QED
    BY <1>4, <2>1, <2>2
<1>8. RegistryTypeOK'
  BY <1>0, <1>4, <1>5, <1>7 DEF RegistryTypeOK
<1>9. FilesInOrder'
  BY <1>0, <1>3 DEF FilesInOrder
<1>10. QueueOfLast'
  BY <1>0, <1>3, <1>7 DEF QueueOfLast
<1>11. RegisteredIsValid'
  <2> SUFFICES ASSUME NEW n \in Names, registry'[n] # NoPlugin
               PROVE  registry'[n].valid /\ registry'[n].name = n
    BY DEF RegisteredIsValid
  <2>1. CASE registry' = registry
    BY <2>1 DEF RegisteredIsValid
  <2>2. CASE r.class.valid /\ registry' = [registry EXCEPT ![r.class.name] = r.class]
    <3>1. CASE n = r.class.name
      BY <3>1, <2>2, <1>2 DEF RegistryTypeOK
    <3>2. CASE n # r.class.name
      BY <3>2, <2>2, <1>2 DEF RegistryTypeOK, RegisteredIsValid
    <3> QED
      BY <3>1, <3>2
  <2> QED
    BY <1>4, <2>1, <2>2
<1>12. NoneLost'
  <2> SUFFICES ASSUME NEW f \in 1 .. Loaded, Sound(found[f]),
                      NEW c \in 1 .. Len(found[f].classes), found[f].classes[c].valid
               PROVE  \/ registry'[found[f].classes[c].name] # NoPlugin
                      \/ f = Loaded /\ \E q \in 1 .. Len(queue') :
                           queue'[q] = [way |-> "scan", class |-> found[f].classes[c]]
    BY <1>0, <1>3 DEF NoneLost, NameTaken, ToScan
  <2>0. found[f].classes \in Seq(PluginClass) /\ found[f].classes[c] \in PluginClass
    <3>1. found[f] \in PluginFile
      BY <1>0, <1>3
    <3> QED
      BY <3>1 DEF PluginFile
  <2>1. found[f].classes[c].name \in Names
    BY <2>0 DEF PluginClass
  <2>2. CASE registry[found[f].classes[c].name] # NoPlugin
    BY <2>2, <2>1, <1>6
  <2>3. CASE f = Loaded /\ ToScan(found[f].classes[c])
    <3>0. \A i \in 1 .. Len(found[f].classes) : found[f].classes[i].builds
      BY <2>0 DEF Sound
    <3>1. r.class.builds
      BY <3>0, <2>3, <1>1 DEF QueueOfLast
    <3>2. ~raises
      BY <3>1 DEF raises
    <3>3. PICK q \in 1 .. Len(queue) : queue[q] = [way |-> "scan", class |-> found[f].classes[c]]
      BY <2>3 DEF ToScan
    <3>4. CASE q = 1
      <4>1. r.way = "scan" /\ r.class = found[f].classes[c]
        BY <3>3, <3>4, <1>1
      <4>2. CASE Passed(r)
        BY <4>1, <4>2, <2>1, <1>6 DEF Passed
      <4>3. CASE ~Passed(r)
        <5>1. registry' = [registry EXCEPT ![r.class.name] = r.class]
          BY <4>1, <4>3, <3>2, <1>4
        <5> QED
          BY <5>1, <4>1, <2>0, <2>1, NoPluginAssumption DEF RegistryTypeOK
      <4> QED
        BY <4>2, <4>3
    <3>5. CASE q # 1
      <4>1. queue' = Tail(queue)
        BY <3>2, <1>4
      <4>2. q - 1 \in 1 .. Len(queue') /\ queue'[q - 1] = queue[q]
        BY <4>1, <3>5, <1>0
      <4> QED
        BY <4>2, <3>3, <2>3
    <3> QED
      BY <3>4, <3>5
  <2> QED
    BY <2>2, <2>3 DEF NoneLost, NameTaken
<1>13. NothingLeft'
  BY <1>4 DEF NothingLeft
<1> QED
  BY <1>8, <1>9, <1>10, <1>11, <1>12, <1>13

\* The end of discovery changes no registration.
LEMMA FinishKeepsRegistry == RegistryInv /\ FinishDiscovery => RegistryInv'
BY DEF RegistryInv, FinishDiscovery, RegistryTypeOK, FilesInOrder, Loaded, QueueOfLast,
       RegisteredIsValid, NoneLost, NameTaken, ToScan, NothingLeft

\* Nor does what changes none of its variables.
LEMMA StutterKeepsRegistry == RegistryInv /\ UNCHANGED registryVars => RegistryInv'
BY DEF RegistryInv, registryVars, RegistryTypeOK, FilesInOrder, Loaded, QueueOfLast,
       RegisteredIsValid, NoneLost, NameTaken, ToScan, NothingLeft

\* Whatever the files, discovery keeps its invariant.
THEOREM RegistryAlways == Spec => []RegistryInv
<1>1. Init => RegistryInv
  BY RegistryInitially DEF Init
<1>2. RegistryInv /\ [Next]_vars => RegistryInv'
  <2> SUFFICES ASSUME RegistryInv, [Next]_vars
               PROVE  RegistryInv'
    OBVIOUS
  <2>1. RegistryNext \/ UNCHANGED registryVars
    BY DEF Next, vars, BeginEdit, EndEdit, Begin, Evaluate, Audit, Withhold, Execute, ToolEnds,
           Persist
  <2> QED
    BY <2>1, LoadKeepsRegistry, RegisterKeepsRegistry, FinishKeepsRegistry,
       StutterKeepsRegistry DEF RegistryNext
<1> QED
  BY <1>1, <1>2, PTL DEF Spec

\* Neither invalid classes nor files that fail keep another file's tools out, and what is
\* registered is valid and under its own name.
THEOREM ToolsAreFound == Spec => []EveryToolFound
<1>1. RegistryInv => EveryToolFound
  <2> SUFFICES ASSUME RegistryInv, discovery = "complete", NEW n \in Names
               PROVE  /\ registry[n] # NoPlugin => registry[n].valid /\ registry[n].name = n
                      /\ (\E f \in DOMAIN found : Sound(found[f]) /\
                            \E c \in DOMAIN found[f].classes :
                              found[f].classes[c].valid /\ found[f].classes[c].name = n)
                           => registry[n] # NoPlugin
    BY DEF EveryToolFound
  <2> USE DEF RegistryInv
  <2>1. found \in Seq(PluginFile) /\ queue = <<>> /\ Loaded = Len(found) /\ Len(found) \in Nat
    BY DEF NothingLeft, RegistryTypeOK, Loaded
  <2>2. ASSUME NEW f \in DOMAIN found, Sound(found[f]),
               NEW c \in DOMAIN found[f].classes, found[f].classes[c].valid,
               found[f].classes[c].name = n
        PROVE  registry[n] # NoPlugin
    <3>1. found[f].classes \in Seq(PluginClass)
      <4>1. found[f] \in PluginFile
        BY <2>1
      <4> QED
        BY <4>1 DEF PluginFile
    <3>2. f \in 1 .. Loaded /\ c \in 1 .. Len(found[f].classes)
      BY <3>1, <2>1
    <3>3. ~ToScan(found[f].classes[c])
      BY <2>1 DEF ToScan
    <3> QED
      BY <2>2, <3>2, <3>3 DEF NoneLost, NameTaken
  <2> QED
    BY <2>2 DEF RegisteredIsValid
<1> QED
  BY <1>1, RegistryAlways, PTL

-----------------------------------------------------------------------------
\* The loop over the rules.

\* A rule matches, does not, or cannot be evaluated.
LEMMA RuleAnswers ==
  ASSUME NEW rule, NEW request
  PROVE  evaluate_rule(rule, request) \in {"yes", "no", "raises"}
<1>1. \A b : Answer(b) \in {"yes", "no"}
  BY DEF Answer
<1>2. evaluate_conditions(request.fields, rule.conditions, rule.combinator)
        \in {"yes", "no", "raises"}
  <2> DEFINE results == {evaluate_condition(request.fields, rule.conditions[i]) :
                           i \in DOMAIN rule.conditions}
  <2> HIDE DEF results
  <2>1. \/ evaluate_conditions(request.fields, rule.conditions, rule.combinator)
             \in {"yes", "raises"}
        \/ \E b : evaluate_conditions(request.fields, rule.conditions, rule.combinator) = Answer(b)
    <3> HIDE DEF Answer
    <3>1. CASE rule.conditions = <<>>
      BY <3>1 DEF evaluate_conditions
    <3>2. CASE rule.conditions # <<>> /\ "raises" \in results
      BY <3>2 DEF evaluate_conditions, results
    <3>3. CASE /\ rule.conditions # <<>> /\ "raises" \notin results
               /\ rule.combinator = "OR"
      <4>1. evaluate_conditions(request.fields, rule.conditions, rule.combinator)
              = Answer("yes" \in results)
        BY <3>3 DEF evaluate_conditions, results
      <4> QED
        BY <4>1
    <3>4. CASE /\ rule.conditions # <<>> /\ "raises" \notin results
               /\ rule.combinator # "OR"
      <4>1. evaluate_conditions(request.fields, rule.conditions, rule.combinator)
              = Answer("no" \notin results)
        BY <3>4 DEF evaluate_conditions, results
      <4> QED
        BY <4>1
    <3> QED
      BY <3>1, <3>2, <3>3, <3>4
  <2> QED
    BY <2>1, <1>1
<1> QED
  BY <1>2 DEF evaluate_rule

Hits(rules, rq, i) == {j \in i .. Len(rules) : evaluate_rule(rules[j], rq) # "no"}

First(S) == CHOOSE j \in S : \A k \in S : j <= k

Decided(rule, rq) ==
  IF evaluate_rule(rule, rq) = "yes" THEN Verdict(rule.decision, rule.id)
  ELSE Verdict("raises", rule.id)

\* What the first of the rules from i on decides that matches, or cannot be evaluated.
FirstFrom(rules, rq, i) ==
  IF Hits(rules, rq, i) = {} THEN Verdict("allow", NoRule)
  ELSE Decided(rules[First(Hits(rules, rq, i))], rq)

\* A set of numbers that is not empty has a first one.
LEMMA FirstIsLeast ==
  ASSUME NEW S \in SUBSET Nat, S # {}
  PROVE  First(S) \in S /\ \A k \in S : First(S) <= k
<1>1. PICK x \in S : \A y \in S : ~(<<y, x>> \in OpToRel(<, Nat))
  BY NatLessThanWellFounded, WFMin
<1>2. ASSUME NEW y \in S
      PROVE  x <= y
  <2>1. <<y, x>> \in Nat \X Nat /\ ~(y < x)
    BY <1>1 DEF OpToRel
  <2> QED
    BY <2>1
<1> QED
  BY <1>2 DEF First

\* The first rule from i on is rule i, or the first from i + 1 on.
LEMMA FirstFromStep ==
  ASSUME NEW rules \in Seq(Rule), NEW rq, NEW i \in 1 .. Len(rules)
  PROVE  FirstFrom(rules, rq, i) =
           IF evaluate_rule(rules[i], rq) # "no" THEN Decided(rules[i], rq)
           ELSE FirstFrom(rules, rq, i + 1)
<1>1. Len(rules) \in Nat
  OBVIOUS
<1>2. CASE evaluate_rule(rules[i], rq) # "no"
  <2>1. i \in Hits(rules, rq, i) /\ Hits(rules, rq, i) \in SUBSET Nat
    BY <1>1, <1>2 DEF Hits
  <2>2. \A k \in Hits(rules, rq, i) : i <= k
    BY <1>1 DEF Hits
  <2>3. First(Hits(rules, rq, i)) = i
    <3> DEFINE f == First(Hits(rules, rq, i))
    <3>1. f \in Hits(rules, rq, i) /\ f <= i
      BY <2>1, FirstIsLeast
    <3>2. i <= f /\ f \in Nat
      BY <3>1, <2>1, <2>2
    <3> QED
      BY <3>1, <3>2
  <2> QED
    BY <1>2, <2>1, <2>3 DEF FirstFrom
<1>3. CASE evaluate_rule(rules[i], rq) = "no"
  <2>1. Hits(rules, rq, i) = Hits(rules, rq, i + 1)
    BY <1>1, <1>3 DEF Hits
  <2> QED
    BY <1>3, <2>1 DEF FirstFrom
<1> QED
  BY <1>2, <1>3

Body(rules, rq, i, f) ==
  IF i > Len(rules) THEN Verdict("allow", NoRule)
  ELSE CASE evaluate_rule(rules[i], rq) = "yes" -> Verdict(rules[i].decision, rules[i].id)
         [] evaluate_rule(rules[i], rq) = "raises" -> Verdict("raises", rules[i].id)
         [] OTHER -> f[i + 1]

IsLoop(rules, rq, f) == f = [i \in 1 .. Len(rules) + 1 |-> Body(rules, rq, i, f)]

\* The loop decides as the first rule does that matches or cannot be evaluated.
LEMMA LoopFindsFirst ==
  ASSUME NEW rules \in Seq(Rule), NEW request
  PROVE  evaluate(rules, request) =
           IF Unreadable(request) THEN Verdict("raises", NoRule)
           ELSE FirstFrom(rules, Enriched(request), 1)
<1> DEFINE rq == Enriched(request)
           n == Len(rules)
           W == [i \in 1 .. n + 1 |-> FirstFrom(rules, rq, i)]
<1> HIDE DEF rq
<1>0. n \in Nat
  OBVIOUS
<1>1. ASSUME NEW i \in 1 .. n + 1, NEW f, i <= n => f[i + 1] = FirstFrom(rules, rq, i + 1)
      PROVE  Body(rules, rq, i, f) = FirstFrom(rules, rq, i)
  <2>1. CASE i > n
    <3>1. Hits(rules, rq, i) = {}
      BY <2>1, <1>0 DEF Hits
    <3> QED
      BY <3>1, <2>1 DEF Body, FirstFrom
  <2>2. CASE i <= n
    <3>1. i \in 1 .. n /\ ~(i > n)
      BY <2>2, <1>0
    <3>2. evaluate_rule(rules[i], rq) \in {"yes", "no", "raises"}
      BY RuleAnswers
    <3>3. FirstFrom(rules, rq, i) =
            IF evaluate_rule(rules[i], rq) # "no" THEN Decided(rules[i], rq)
            ELSE FirstFrom(rules, rq, i + 1)
      BY <3>1, FirstFromStep
    <3> QED
      BY <3>1, <3>2, <3>3, <2>2, <1>1 DEF Body, Decided
  <2> QED
    BY <2>1, <2>2, <1>0
<1>2. IsLoop(rules, rq, W)
  <2>1. ASSUME NEW i \in 1 .. n + 1
        PROVE  W[i] = Body(rules, rq, i, W)
    <3>1. i <= n => W[i + 1] = FirstFrom(rules, rq, i + 1)
      <4>1. i <= n => i + 1 \in 1 .. n + 1
        BY <1>0
      <4> QED
        BY <4>1
    <3> HIDE DEF W
    <3>2. Body(rules, rq, i, W) = FirstFrom(rules, rq, i)
      BY <3>1, <1>1
    <3> QED
      BY <3>2 DEF W
  <2>2. W = [i \in 1 .. n + 1 |-> W[i]]
    OBVIOUS
  <2> HIDE DEF W
  <2> QED
    BY <2>1, <2>2 DEF IsLoop
<1>3. ASSUME NEW f, IsLoop(rules, rq, f)
      PROVE  f[1] = FirstFrom(rules, rq, 1)
  <2> DEFINE Wrong == {k \in 0 .. n : f[n + 1 - k] # FirstFrom(rules, rq, n + 1 - k)}
  <2>1. \A i \in 1 .. n + 1 : f[i] = Body(rules, rq, i, f)
    BY <1>3 DEF IsLoop
  <2>2. ASSUME Wrong # {}
        PROVE  FALSE
    <3>1. Wrong \in SUBSET Nat
      BY <1>0
    <3>2. PICK k \in Wrong : \A l \in Wrong : k <= l
      BY <3>1, <2>2, FirstIsLeast
    <3>3. k \in 0 .. n /\ n + 1 - k \in 1 .. n + 1
      BY <3>2, <1>0
    <3>4. n + 1 - k <= n => f[n + 1 - k + 1] = FirstFrom(rules, rq, n + 1 - k + 1)
      <4> SUFFICES ASSUME n + 1 - k <= n
                   PROVE  f[n + 1 - k + 1] = FirstFrom(rules, rq, n + 1 - k + 1)
        OBVIOUS
      <4>1. k - 1 \in 0 .. n /\ ~(k <= k - 1) /\ n + 1 - (k - 1) = n + 1 - k + 1
        BY <3>3, <1>0
      <4>2. k - 1 \notin Wrong
        BY <3>2, <4>1
      <4> QED
        BY <4>1, <4>2
    <3>5. Body(rules, rq, n + 1 - k, f) = FirstFrom(rules, rq, n + 1 - k)
      BY <3>3, <3>4, <1>1
    <3> QED
      BY <3>5, <2>1, <3>3, <3>2
  <2>3. n \in 0 .. n /\ n + 1 - n = 1
    BY <1>0
  <2> QED
    BY <2>2, <2>3
<1> DEFINE loop == CHOOSE f : f = [i \in 1 .. n + 1 |-> Body(rules, rq, i, f)]
<1>4. loop = [i \in 1 .. n + 1 |-> Body(rules, rq, i, loop)]
  BY <1>2, Zenon DEF IsLoop
<1>5. loop[1] = FirstFrom(rules, rq, 1)
  <2> HIDE DEF loop
  <2> QED
    BY <1>3, <1>4 DEF IsLoop
<1>6. evaluate(rules, request) = IF Unreadable(request) THEN Verdict("raises", NoRule) ELSE loop[1]
  BY Zenon DEF evaluate, rq, Body
<1> QED
  BY <1>5, <1>6 DEF rq

\* Whatever a client says about a mail with a recipient being external is overwritten.
LEMMA ClientsWordIsNothing ==
  ASSUME NEW request, IsRequest(request), IsMail(request), NEW b \in BOOLEAN
  PROVE  /\ Enriched(WithExternal(request, b)) = Enriched(request)
         /\ Unreadable(WithExternal(request, b)) <=> Unreadable(request)
<1> DEFINE other == WithExternal(request, b)
           F == DOMAIN request.fields \union {"external"}
<1>1. /\ request = [tool |-> request.tool, action |-> request.action, fields |-> request.fields]
      /\ "recipient" \in DOMAIN request.fields
      /\ request.tool = "email" /\ request.action = "send"
  BY DEF IsRequest, IsMail
<1>2. /\ other = [tool |-> request.tool, action |-> request.action, fields |-> other.fields]
      /\ other.fields = [f \in F |-> IF f = "external" THEN Bool(b) ELSE request.fields[f]]
  BY <1>1 DEF WithExternal
<1>3. /\ DOMAIN other.fields = F
      /\ other.fields["recipient"] = request.fields["recipient"]
      /\ \A f \in F : f # "external" => other.fields[f] = request.fields[f]
      /\ other.tool = request.tool /\ other.action = request.action
  BY <1>1, <1>2
<1> HIDE DEF other
<1>4. IsMail(other)
  BY <1>1, <1>3 DEF IsMail
<1>5. Unreadable(other) <=> Unreadable(request)
  BY <1>3, <1>4 DEF Unreadable
<1>6. \A c : WithExternal(other, c) = WithExternal(request, c)
  <2> SUFFICES ASSUME NEW c
               PROVE  WithExternal(other, c) = WithExternal(request, c)
    OBVIOUS
  <2> DEFINE g == [f \in F |-> IF f = "external" THEN Bool(c) ELSE request.fields[f]]
  <2>1. WithExternal(request, c) = [tool |-> request.tool, action |-> request.action, fields |-> g]
    BY <1>1 DEF WithExternal
  <2>2. [f \in DOMAIN other.fields \union {"external"} |->
           IF f = "external" THEN Bool(c) ELSE other.fields[f]] = g
    <3>1. DOMAIN other.fields \union {"external"} = F
      BY <1>3
    <3> QED
      BY <3>1, <1>3
  <2>3. WithExternal(other, c) = [tool |-> request.tool, action |-> request.action, fields |-> g]
    <3>1. WithExternal(other, c) =
            [tool |-> request.tool, action |-> request.action,
             fields |-> [f \in DOMAIN other.fields \union {"external"} |->
                           IF f = "external" THEN Bool(c) ELSE other.fields[f]]]
      BY <1>2 DEF WithExternal
    <3> QED
      BY <3>1, <2>2
  <2> QED
    BY <2>1, <2>3
<1>7. Enriched(other) = Enriched(request)
  BY <1>3, <1>4, <1>6 DEF Enriched
<1> QED
  BY <1>5, <1>7 DEF other

\* The decision on a request is one that a rule may have, or there is none.
LEMMA DecisionIsOutcome ==
  ASSUME NEW rules \in Seq(Rule), NEW request
  PROVE  evaluate(rules, request).decision \in Outcomes \union {"raises"}
<1> DEFINE rq == Enriched(request)
<1> HIDE DEF rq
<1>1. CASE Hits(rules, rq, 1) = {}
  BY <1>1, LoopFindsFirst DEF rq, FirstFrom, Verdict, Outcomes
<1>2. CASE Hits(rules, rq, 1) # {}
  <2> DEFINE j == First(Hits(rules, rq, 1))
  <2>1. j \in 1 .. Len(rules)
    <3>1. Hits(rules, rq, 1) \in SUBSET Nat
      BY DEF Hits
    <3>2. j \in Hits(rules, rq, 1)
      BY <3>1, <1>2, FirstIsLeast
    <3> QED
      BY <3>2 DEF Hits
  <2>2. rules[j].decision \in Outcomes
    <3>1. rules[j] \in Rule
      BY <2>1
    <3> QED
      BY <3>1 DEF Rule
  <2> HIDE DEF j
  <2>3. FirstFrom(rules, rq, 1) = Decided(rules[j], rq)
    BY <1>2 DEF FirstFrom, j
  <2>4. Decided(rules[j], rq).decision \in Outcomes \union {"raises"}
    BY <2>2 DEF Decided, Verdict
  <2> QED
    BY <2>3, <2>4, LoopFindsFirst DEF rq, Verdict
<1> QED
  BY <1>1, <1>2

\* The rule file holds rules, or is half written.
FileOK == policyFile \in RuleFiles \union {Torn}

\* Edits replace the file by another of RuleFiles, in two steps.
LEMMA FileAlways == Spec => []FileOK
<1>1. Init => FileOK
  BY DEF Init, FileOK
<1>2. FileOK /\ [Next]_vars => FileOK'
  BY DEF FileOK, Next, vars, fileVars, BeginEdit, EndEdit, Begin, Evaluate, Audit, Withhold,
         Execute, ToolEnds, Persist
<1> QED
  BY <1>1, <1>2, PTL DEF Spec

\* The previews of the rules, one by one, show what will be decided: by the first whose
\* preview matches, or else to allow; and nothing a client says of a mail with a recipient
\* being external changes it.
THEOREM PreviewsFirstMatchDecides == Spec => []FirstMatchDecides
<1>1. FileOK => FirstMatchDecides
  <2> SUFFICES ASSUME FileOK, policyFile # Torn, NEW request \in Requests
               PROVE  LET v == evaluate(policyFile, request)
                          shown(j) == preview_rule(policyFile[j], Enriched(request))
                          matching == {j \in DOMAIN policyFile : shown(j).decision # "N/A"}
                      IN
                      /\ ~Unreadable(request) =>
                           v = IF matching = {} THEN Verdict("allow", NoRule)
                               ELSE shown(CHOOSE j \in matching : \A k \in matching : j <= k)
                      /\ IsMail(request) =>
                           \A b \in BOOLEAN : evaluate(policyFile, WithExternal(request, b)) = v
    BY DEF FirstMatchDecides
  <2> DEFINE rq == Enriched(request)
             shown(j) == preview_rule(policyFile[j], rq)
             matching == {j \in DOMAIN policyFile : shown(j).decision # "N/A"}
             hits == Hits(policyFile, rq, 1)
  <2> HIDE DEF rq
  <2>1. policyFile \in Seq(Rule)
    BY RulesAssumption DEF FileOK
  <2>2. ASSUME NEW j \in 1 .. Len(policyFile)
        PROVE  /\ shown(j).decision # "N/A" <=> evaluate_rule(policyFile[j], rq) # "no"
               /\ evaluate_rule(policyFile[j], rq) # "no" => shown(j) = Decided(policyFile[j], rq)
    <3>1. evaluate_rule(policyFile[j], rq) \in {"yes", "no", "raises"}
      BY RuleAnswers
    <3>2. policyFile[j].decision \in Outcomes
      <4>1. policyFile[j] \in Rule
        BY <2>1
      <4> QED
        BY <4>1 DEF Rule
    <3>3. policyFile[j].decision # "N/A"
      BY <3>2 DEF Outcomes
    <3> QED
      BY <3>1, <3>3 DEF preview_rule, Decided, Verdict
  <2>3. matching = hits
    <3>1. DOMAIN policyFile = 1 .. Len(policyFile)
      BY <2>1
    <3> HIDE DEF shown
    <3> QED
      BY <3>1, <2>2 DEF Hits
  <2>4. ASSUME ~Unreadable(request)
        PROVE  evaluate(policyFile, request) =
                 IF matching = {} THEN Verdict("allow", NoRule) ELSE shown(First(matching))
    <3>1. evaluate(policyFile, request) = FirstFrom(policyFile, rq, 1)
      BY <2>1, <2>4, LoopFindsFirst DEF rq
    <3>2. CASE hits = {}
      <4> HIDE DEF matching, hits, shown
      <4> QED
        BY <3>1, <3>2, <2>3 DEF FirstFrom, hits
    <3>3. CASE hits # {}
      <4>1. hits \in SUBSET Nat
        BY DEF Hits
      <4>2. First(hits) \in hits
        BY <4>1, <3>3, FirstIsLeast
      <4>3. First(hits) \in 1 .. Len(policyFile)
            /\ evaluate_rule(policyFile[First(hits)], rq) # "no"
        BY <4>2 DEF Hits
      <4>4. shown(First(hits)) = Decided(policyFile[First(hits)], rq)
        BY <4>3, <2>2
      <4>5. FirstFrom(policyFile, rq, 1) = Decided(policyFile[First(hits)], rq)
        BY <3>3 DEF FirstFrom
      <4> HIDE DEF matching, hits, shown
      <4> QED
        BY <3>1, <3>3, <2>3, <4>4, <4>5
    <3> QED
      BY <3>2, <3>3
  <2>5. ASSUME IsMail(request), NEW b \in BOOLEAN
        PROVE  evaluate(policyFile, WithExternal(request, b)) = evaluate(policyFile, request)
    <3>1. IsRequest(request)
      BY RequestsAssumption
    <3> QED
      BY <2>1, <2>5, <3>1, ClientsWordIsNothing, LoopFindsFirst
  <2> QED
    BY <2>4, <2>5 DEF First, rq
<1> QED
  BY <1>1, FileAlways, PTL

-----------------------------------------------------------------------------
\* Numbers and their texts.

\* A number is written with one of the known texts.
LEMMA NumberIsWritten ==
  ASSUME NEW v \in Value, v.kind \in {"int", "float"}
  PROVE  \/ v.num \in DOMAIN IntText /\ v = Int2(v.num) /\ Str(v) = IntText[v.num]
         \/ v.num \in DOMAIN FloatText /\ v = Float2(v.num) /\ Str(v) = FloatText[v.num]
<1>1. CASE \E n \in DOMAIN IntText : v = Int2(n)
  BY <1>1 DEF Int2, Str
<1>2. CASE \E n \in DOMAIN FloatText : v = Float2(n)
  BY <1>2 DEF Float2, Str
<1>3. CASE \E b \in BOOLEAN : v = Bool(b)
  BY <1>3 DEF Bool
<1>4. CASE v \in [kind : {"text"}, num : {0}, text : Seq(DOMAIN Rank)]
  BY <1>4
<1>5. CASE v = None
  BY <1>5 DEF None
<1> QED
  BY <1>1, <1>2, <1>3, <1>4, <1>5 DEF Value

\* What is read is what was written, and an int is not read of the text of a float.
LEMMA WrittenIsRead ==
  /\ \A n \in DOMAIN IntText : /\ Reads(IntText, IntText[n])
                               /\ Parsed(IntText, IntText[n]) = n
                               /\ ~Reads(FloatText, IntText[n])
  /\ \A n \in DOMAIN FloatText : /\ Reads(FloatText, FloatText[n])
                                 /\ Parsed(FloatText, FloatText[n]) = n
                                 /\ ~Reads(IntText, FloatText[n])
<1>1. ASSUME NEW n \in DOMAIN IntText
      PROVE  /\ Reads(IntText, IntText[n])
             /\ Parsed(IntText, IntText[n]) = n
             /\ ~Reads(FloatText, IntText[n])
  BY WritingAssumption DEF Reads, Parsed
<1>2. ASSUME NEW n \in DOMAIN FloatText
      PROVE  /\ Reads(FloatText, FloatText[n])
             /\ Parsed(FloatText, FloatText[n]) = n
             /\ ~Reads(IntText, FloatText[n])
  BY WritingAssumption DEF Reads, Parsed
<1> QED
  BY <1>1, <1>2

\* The text of a threshold is made a number of the type of what it is compared with,
\* except that of a float for an int, which stays a text.
LEMMA TextIsCast ==
  ASSUME NEW given \in Value, given.kind \in {"int", "float"},
         NEW v \in Value, v.kind \in {"int", "float"}
  PROVE  /\ Coerced(given, Text(Str(v)))[1] = given
         /\ Coerced(given, Text(Str(v)))[2] =
              IF given.kind = "int" /\ v.kind = "float" THEN Text(Str(v))
              ELSE [kind |-> given.kind, num |-> v.num, text |-> <<>>]
         /\ Coerced(given, v) = <<given, v>>
<1> DEFINE t == Text(Str(v))
<1>1. t.kind = "text" /\ t.text = Str(v) /\ ~IsNumber(t) /\ IsNumber(given) /\ IsNumber(v)
  BY DEF Text, IsNumber
<1>2. /\ Coerced(given, v) = <<given, v>>
      /\ Coerced(given, t) = <<given, Cast(given.kind, t)>>
  BY <1>1 DEF Coerced, AsKindOf
<1> HIDE DEF t
<1>3. CASE v.kind = "int"
  <2>1. v.num \in DOMAIN IntText /\ t.text = IntText[v.num]
    BY <1>1, <1>3, NumberIsWritten DEF Float2
  <2>2. Reads(IntText, t.text) /\ Parsed(IntText, t.text) = v.num /\ ~Reads(FloatText, t.text)
    BY <2>1, WrittenIsRead
  <2>3. CASE given.kind = "int"
    BY <2>2, <2>3, <1>1, <1>2, <1>3 DEF Cast, Int2, t
  <2>4. CASE given.kind = "float"
    BY <2>2, <2>4, <1>1, <1>2, <1>3 DEF Cast, Float2, t
  <2> QED
    BY <2>3, <2>4
<1>4. CASE v.kind = "float"
  <2>1. v.num \in DOMAIN FloatText /\ t.text = FloatText[v.num]
    BY <1>1, <1>4, NumberIsWritten DEF Int2
  <2>2. Reads(FloatText, t.text) /\ Parsed(FloatText, t.text) = v.num /\ ~Reads(IntText, t.text)
    BY <2>1, WrittenIsRead
  <2>3. CASE given.kind = "int"
    BY <2>2, <2>3, <1>1, <1>2, <1>4 DEF Cast, t
  <2>4. CASE given.kind = "float"
    BY <2>2, <2>4, <1>1, <1>2, <1>4 DEF Cast, Float2, t
  <2> QED
    BY <2>3, <2>4
<1> QED
  BY <1>3, <1>4

\* An order on a number comes out the same of its text, except that an int and the text of
\* a float are unequal, and have no order.
LEMMA OrderOfText ==
  ASSUME NEW given \in Value, given.kind \in {"int", "float"},
         NEW v \in Value, v.kind \in {"int", "float"},
         NEW operator \in Orders
  PROVE  compare(given, operator, Text(Str(v))) =
           IF given.kind = "int" /\ v.kind = "float"
             THEN CASE operator = "==" -> "no"
                    [] operator = "!=" -> "yes"
                    [] OTHER -> "raises"
             ELSE compare(given, operator, v)
<1> DEFINE y == Coerced(given, Text(Str(v)))[2]
<1>1. /\ Coerced(given, Text(Str(v)))[1] = given
      /\ Coerced(given, v)[1] = given /\ Coerced(given, v)[2] = v
      /\ y = IF given.kind = "int" /\ v.kind = "float" THEN Text(Str(v))
             ELSE [kind |-> given.kind, num |-> v.num, text |-> <<>>]
  BY TextIsCast
<1>2. IsNumber(given) /\ IsNumber(v)
  BY DEF IsNumber
<1> HIDE DEF y
<1>3. CASE given.kind = "int" /\ v.kind = "float"
  <2>1. y.kind = "text" /\ ~IsNumber(y)
    BY <1>1, <1>3 DEF Text, IsNumber
  <2>2. ~Comparable(given, y) /\ ~Equal(given, y)
    BY <2>1, <1>2, <1>3 DEF Comparable, Equal
  <2> QED
    BY <1>1, <1>3, <2>2 DEF compare, y, Answer, Orders
<1>4. CASE ~(given.kind = "int" /\ v.kind = "float")
  <2>1. y.num = v.num /\ IsNumber(y)
    BY <1>1, <1>4 DEF IsNumber
  <2>2. /\ Comparable(given, y) /\ Comparable(given, v)
        /\ Equal(given, y) = Equal(given, v)
        /\ Less(given, y) = Less(given, v) /\ Less(y, given) = Less(v, given)
    BY <2>1, <1>2 DEF Comparable, Equal, Less
  <2>3. compare(given, operator, Text(Str(v))) = compare(given, operator, v)
    BY <1>1, <2>2 DEF compare, y, Orders
  <2> QED
    BY <2>3, <1>4
<1> QED
  BY <1>3, <1>4

\* A threshold of the rule file may be written as a number or as its text, but not a float
\* for a field that is an int.
THEOREM TextsOfNumbers == Spec => []NumbersAsText
<1>1. FileOK => NumbersAsText
  <2> SUFFICES ASSUME FileOK, policyFile # Torn,
                      NEW j \in DOMAIN policyFile, NEW request \in Requests,
                      NEW k \in DOMAIN policyFile[j].conditions,
                      policyFile[j].conditions[k].operator \in Orders,
                      policyFile[j].conditions[k].value.kind \in {"int", "float"},
                      policyFile[j].conditions[k].field \in DOMAIN request.fields,
                      request.fields[policyFile[j].conditions[k].field].kind \in {"int", "float"}
               PROVE  LET c == policyFile[j].conditions[k]
                          given == request.fields
                          asText == compare(given[c.field], c.operator, Text(Str(c.value)))
                      IN asText = IF given[c.field].kind = "int" /\ c.value.kind = "float"
                                    THEN CASE c.operator = "==" -> "no"
                                           [] c.operator = "!=" -> "yes"
                                           [] OTHER -> "raises"
                                    ELSE compare(given[c.field], c.operator, c.value)
    BY DEF NumbersAsText
  <2> DEFINE c == policyFile[j].conditions[k]
             g == request.fields[c.field]
  <2>1. policyFile \in Seq(Rule)
    BY RulesAssumption DEF FileOK
  <2>2. policyFile[j].conditions \in Seq(Condition)
    <3>1. policyFile[j] \in Rule
      BY <2>1
    <3> QED
      BY <3>1 DEF Rule
  <2>3. c.value \in Value
    <3>1. c \in Condition
      BY <2>2
    <3> QED
      BY <3>1 DEF Condition
  <2>4. g \in Value
    <3>1. IsRequest(request)
      BY RequestsAssumption
    <3>2. request.fields \in [DOMAIN request.fields -> Value]
      BY <3>1 DEF IsRequest
    <3> QED
      BY <3>2
  <2> QED
    BY <2>3, <2>4, OrderOfText
<1> QED
  BY <1>1, FileAlways, PTL

-----------------------------------------------------------------------------
\* A simulation.

\* The types of a simulation's state.
RunTypeOK ==
  /\ spc \in {"idle", "evaluate", "audit", "act", "tool", "persist", "answered", "failed"}
  /\ at \in 1 .. Len(Scenarios)
  /\ verdict.decision \in Outcomes
  /\ tally \in [Outcomes \ {"unheard_of"} -> Nat]
  /\ audits \in [Outcomes -> Nat]
  /\ toolRuns \in Nat

\* The audit entries of decisions that are counted as d.
Entries(d) == IF d = "allow" THEN audits["allow"] + audits["unheard_of"] ELSE audits[d]

\* The scenario under way may have its audit entry and not be counted yet.
Uncounted(d) == IF spc = "act" /\ Counted(verdict.decision) = d THEN 1 ELSE 0

\* Every scenario counted has its audit entry, and there are no others while nothing has
\* failed.
EntriesMatch ==
  \A d \in Outcomes \ {"unheard_of"} :
    /\ Entries(d) >= tally[d]
    /\ spc # "failed" => Entries(d) = tally[d] + Uncounted(d)

\* A tool is called for a scenario counted as executed, and none that a dry run rejects.
CallsCounted ==
  /\ toolRuns <= tally["allow"] + tally["log_and_allow"]
  /\ spc = "tool" => /\ verdict.decision \notin {"block", "require_hitl"}
                     /\ Supported(Scenarios[at])

\* The tools do not change once a simulation has begun.
ToolsFixed == spc # "idle" => discovery = "complete"

\* A row is only saved after the last scenario, and says what is then counted and audited.
RowTrue ==
  /\ spc \in {"persist", "answered"} => at = Len(Scenarios)
  /\ saved # NoRun =>
       /\ spc \in {"answered", "failed"} /\ at = Len(Scenarios)
       /\ saved = Row
       /\ \A d \in Outcomes \ {"unheard_of"} : Entries(d) = tally[d]

RunInv == RunTypeOK /\ EntriesMatch /\ CallsCounted /\ ToolsFixed /\ RowTrue

\* The invariant only reads the state of the simulation, the registry and whether discovery
\* is complete.
LEMMA StutterKeepsRun ==
  RunInv /\ UNCHANGED <<registry, discovery, runVars>> => RunInv'
BY DEF RunInv, runVars, RunTypeOK, EntriesMatch, Entries, Uncounted, Counted, CallsCounted,
       Supported, ToolsFixed, RowTrue, Row

\* Discovery is over when a simulation begins.
LEMMA DiscoveryKeepsRun ==
  RunInv /\ RegistryNext /\ UNCHANGED runVars => RunInv'
<1> SUFFICES ASSUME RunInv, RegistryNext, UNCHANGED runVars
             PROVE  RunInv'
  OBVIOUS
<1>1. spc = "idle"
  BY DEF RunInv, ToolsFixed, RegistryNext, LoadFile, RegisterNext, FinishDiscovery
<1> QED
  BY <1>1 DEF RunInv, runVars, RunTypeOK, EntriesMatch, Entries, Uncounted, Counted, CallsCounted,
       ToolsFixed, RowTrue, Row

\* There is a first scenario, and nothing is counted before it.
LEMMA RunInitially == Init => RunInv
<1> SUFFICES ASSUME Init
             PROVE  RunInv
  OBVIOUS
<1>1. Len(Scenarios) \in Nat \ {0}
  BY ScenariosAssumption
<1>2. RunTypeOK
  BY <1>1 DEF Init, RunTypeOK, Verdict, Outcomes
<1> QED
  BY <1>2 DEF RunInv, Init, EntriesMatch, Entries, Uncounted, CallsCounted, ToolsFixed, RowTrue,
              Outcomes

\* The next scenario is one of the list, and there is none after the last.
LEMMA NextIsInList ==
  ASSUME RunTypeOK, NextScenario
  PROVE  /\ at' \in 1 .. Len(Scenarios)
         /\ spc' \in {"evaluate", "persist"}
         /\ spc' = "persist" => at' = Len(Scenarios)
<1>1. Len(Scenarios) \in Nat
  BY ScenariosAssumption
<1> QED
  BY <1>1 DEF RunTypeOK, NextScenario

\* Counting a scenario that has its audit entry brings the count up to the entries.
LEMMA CountMatches ==
  ASSUME RunTypeOK, EntriesMatch, spc = "act", Count, UNCHANGED audits,
         spc' \notin {"act", "failed"}
  PROVE  /\ EntriesMatch'
         /\ tally' \in [Outcomes \ {"unheard_of"} -> Nat]
         /\ tally["allow"] + tally["log_and_allow"]
              <= tally'["allow"] + tally'["log_and_allow"]
         /\ verdict.decision \notin {"block", "require_hitl"} =>
              tally["allow"] + tally["log_and_allow"] + 1
                = tally'["allow"] + tally'["log_and_allow"]
<1> DEFINE D == Outcomes \ {"unheard_of"}
           k == Counted(verdict.decision)
<1>1. k \in D /\ (verdict.decision \notin {"block", "require_hitl"} =>
                   k \in {"allow", "log_and_allow"})
  BY DEF RunTypeOK, Counted, Outcomes
<1>2. \A d \in D : Entries(d)' = Entries(d)
  BY DEF Entries
<1> HIDE DEF k
<1>3. tally' = [tally EXCEPT ![k] = @ + 1] /\ tally \in [D -> Nat]
  BY DEF Count, k, RunTypeOK
<1>4. \A d \in D : Uncounted(d) = IF d = k THEN 1 ELSE 0
  BY DEF Uncounted, k
<1>5. \A d \in D : tally'[d] = tally[d] + Uncounted(d) /\ tally[d] \in Nat
  BY <1>1, <1>3, <1>4
<1>6. \A d \in D : Uncounted(d)' = 0
  BY DEF Uncounted
<1>7. EntriesMatch'
  <2> SUFFICES ASSUME NEW d \in D
               PROVE  Entries(d)' = tally'[d] + Uncounted(d)' /\ Entries(d)' >= tally'[d]
    BY DEF EntriesMatch
  <2>1. Entries(d) = tally[d] + Uncounted(d)
    BY DEF EntriesMatch
  <2>2. tally'[d] \in Nat
    BY <1>1, <1>3
  <2> QED
    BY <2>1, <2>2, <1>2, <1>5, <1>6
<1>8. "allow" \in D /\ "log_and_allow" \in D /\ "allow" # "log_and_allow"
  BY DEF Outcomes
<1> QED
  BY <1>1, <1>3, <1>4, <1>5, <1>7, <1>8

\* The verdict on a scenario is an outcome.
LEMMA EvaluateKeepsRun == RunInv /\ FileOK /\ Evaluate => RunInv'
<1> SUFFICES ASSUME RunInv, FileOK, Evaluate
             PROVE  RunInv'
  OBVIOUS
<1> DEFINE v == IF Unloadable THEN Verdict("raises", NoRule)
                ELSE evaluate(policyFile, Scenarios[at])
<1>1. /\ spc = "evaluate" /\ spc' \in {"failed", "audit"}
      /\ UNCHANGED <<registryVars, at, tally, audits, toolRuns, saved>>
      /\ verdict' = verdict \/ (verdict' = v /\ v.decision # "raises")
  BY DEF Evaluate, Fail
<1>2. v.decision \in Outcomes \union {"raises"}
  <2>1. CASE Unloadable
    BY <2>1 DEF Verdict
  <2>2. CASE ~Unloadable
    <3>1. policyFile \in Seq(Rule)
      BY <2>2, RulesAssumption DEF FileOK, Unloadable
    <3> QED
      BY <2>2, <3>1, DecisionIsOutcome
  <2> QED
    BY <2>1, <2>2
<1> HIDE DEF v
<1>3. RunTypeOK'
  BY <1>1, <1>2 DEF RunInv, RunTypeOK
<1>4. EntriesMatch'
  BY <1>1 DEF RunInv, EntriesMatch, Entries, Uncounted
<1> QED
  BY <1>1, <1>3, <1>4 DEF RunInv, CallsCounted, ToolsFixed, RowTrue, registryVars

\* The audit entry of the scenario is its only one.
LEMMA AuditKeepsRun == RunInv /\ Audit => RunInv'
<1> SUFFICES ASSUME RunInv, Audit
             PROVE  RunInv'
  OBVIOUS
<1> DEFINE D == Outcomes \ {"unheard_of"}
           w == verdict.decision
           k == Counted(verdict.decision)
<1>1. /\ spc = "audit" /\ spc' \in {"act", "failed"}
      /\ UNCHANGED <<registryVars, at, verdict, tally, toolRuns, saved>>
      /\ \/ audits' = [audits EXCEPT ![w] = @ + 1]
         \/ audits' = audits /\ spc' = "failed"
  BY DEF Audit, Fail
<1>2. w \in Outcomes /\ audits \in [Outcomes -> Nat] /\ tally \in [D -> Nat]
  BY DEF RunInv, RunTypeOK
<1>3. RunTypeOK'
  BY <1>1, <1>2 DEF RunInv, RunTypeOK
<1>4. k = (IF w = "unheard_of" THEN "allow" ELSE w) /\ k \in D
  BY <1>2 DEF Counted, Outcomes
<1>5. \A d \in D : /\ Entries(d) = tally[d] /\ tally[d] \in Nat /\ tally'[d] = tally[d]
                   /\ Uncounted(d)' = IF spc' = "act" /\ d = k THEN 1 ELSE 0
  <2>1. \A d \in D : Uncounted(d) = 0
    BY <1>1 DEF Uncounted
  <2>2. \A d \in D : Entries(d) = tally[d] + Uncounted(d)
    BY <1>1 DEF RunInv, EntriesMatch
  <2>3. Counted(verdict'.decision) = k /\ verdict' = verdict /\ tally' = tally
    BY <1>1
  <2>4. \A d \in D : Uncounted(d)' = IF spc' = "act" /\ d = k THEN 1 ELSE 0
    BY <2>3 DEF Uncounted, Counted
  <2> QED
    BY <2>1, <2>2, <2>3, <2>4, <1>2
<1> HIDE DEF k
<1>6. CASE audits' = [audits EXCEPT ![w] = @ + 1]
  <2>1. \A d \in D : Entries(d)' = Entries(d) + (IF d = k THEN 1 ELSE 0)
    <3> SUFFICES ASSUME NEW d \in D
                 PROVE  Entries(d)' = Entries(d) + (IF d = k THEN 1 ELSE 0)
      OBVIOUS
    <3>1. \A e \in Outcomes : audits'[e] = audits[e] + (IF e = w THEN 1 ELSE 0) /\ audits[e] \in Nat
      BY <1>6, <1>2
    <3>2. d \in Outcomes /\ d # "unheard_of" /\ "allow" \in Outcomes /\ "unheard_of" \in Outcomes
      BY DEF Outcomes
    <3> QED
      BY <3>1, <3>2, <1>4 DEF Entries
  <2>2. EntriesMatch'
    BY <2>1, <1>1, <1>5 DEF EntriesMatch
  <2> QED
    BY <2>2, <1>1, <1>3 DEF RunInv, CallsCounted, ToolsFixed, RowTrue, registryVars
<1>7. CASE audits' = audits /\ spc' = "failed"
  <2>1. \A d \in D : Entries(d)' = Entries(d)
    BY <1>7 DEF Entries
  <2>2. EntriesMatch'
    BY <2>1, <1>5, <1>7 DEF EntriesMatch
  <2> QED
    BY <2>2, <1>1, <1>3 DEF RunInv, CallsCounted, ToolsFixed, RowTrue, registryVars
<1> QED
  BY <1>1, <1>6, <1>7

\* A scenario that is withheld is counted, and no tool is called.
LEMMA WithholdKeepsRun == RunInv /\ Withhold => RunInv'
<1> SUFFICES ASSUME RunInv, Withhold
             PROVE  RunInv'
  OBVIOUS
<1>1. /\ spc = "act" /\ Count /\ NextScenario
      /\ UNCHANGED <<registryVars, verdict, audits, toolRuns, saved>>
  BY DEF Withhold
<1>2. /\ at' \in 1 .. Len(Scenarios) /\ spc' \in {"evaluate", "persist"}
      /\ spc' = "persist" => at' = Len(Scenarios)
  BY <1>1, NextIsInList DEF RunInv
<1>3. /\ EntriesMatch' /\ tally' \in [Outcomes \ {"unheard_of"} -> Nat]
      /\ tally["allow"] + tally["log_and_allow"] <= tally'["allow"] + tally'["log_and_allow"]
  BY <1>1, <1>2, CountMatches DEF RunInv
<1>4. RunTypeOK'
  BY <1>1, <1>2, <1>3 DEF RunInv, RunTypeOK
<1>5. CallsCounted'
  <2>1. "allow" \in Outcomes \ {"unheard_of"} /\ "log_and_allow" \in Outcomes \ {"unheard_of"}
    BY DEF Outcomes
  <2> QED
    BY <2>1, <1>1, <1>2, <1>3 DEF RunInv, RunTypeOK, CallsCounted
<1> QED
  BY <1>1, <1>2, <1>3, <1>4, <1>5 DEF RunInv, ToolsFixed, RowTrue, registryVars

\* A scenario that is executed is counted, with one call of a tool at most.
LEMMA ExecuteKeepsRun == RunInv /\ Execute => RunInv'
<1> SUFFICES ASSUME RunInv, Execute
             PROVE  RunInv'
  OBVIOUS
<1>1. /\ spc = "act" /\ Count /\ verdict.decision \notin {"block", "require_hitl"}
      /\ UNCHANGED <<registryVars, verdict, audits, saved>>
      /\ \/ /\ Supported(Scenarios[at])
            /\ toolRuns' = toolRuns + 1 /\ spc' = "tool" /\ at' = at
         \/ NextScenario /\ toolRuns' = toolRuns
  BY DEF Execute
<1>2. /\ at' \in 1 .. Len(Scenarios) /\ spc' \in {"evaluate", "persist", "tool"}
      /\ spc' = "persist" => at' = Len(Scenarios)
      /\ spc' = "tool" => at' = at /\ Supported(Scenarios[at])
  <2>1. CASE NextScenario
    BY <2>1, NextIsInList DEF RunInv
  <2>2. CASE Supported(Scenarios[at]) /\ spc' = "tool" /\ at' = at
    BY <2>2 DEF RunInv, RunTypeOK
  <2> QED
    BY <1>1, <2>1, <2>2
<1>3. /\ EntriesMatch' /\ tally' \in [Outcomes \ {"unheard_of"} -> Nat]
      /\ tally["allow"] + tally["log_and_allow"] + 1 = tally'["allow"] + tally'["log_and_allow"]
  BY <1>1, <1>2, CountMatches DEF RunInv
<1>4. toolRuns' \in Nat /\ toolRuns' <= toolRuns + 1
  BY <1>1 DEF RunInv, RunTypeOK
<1>5. RunTypeOK'
  BY <1>1, <1>2, <1>3, <1>4 DEF RunInv, RunTypeOK
<1>6. CallsCounted'
  <2>1. "allow" \in Outcomes \ {"unheard_of"} /\ "log_and_allow" \in Outcomes \ {"unheard_of"}
    BY DEF Outcomes
  <2>2. toolRuns' <= tally'["allow"] + tally'["log_and_allow"]
    <3>1. /\ toolRuns \in Nat /\ tally["allow"] \in Nat /\ tally["log_and_allow"] \in Nat
          /\ toolRuns <= tally["allow"] + tally["log_and_allow"]
          /\ tally'["allow"] \in Nat /\ tally'["log_and_allow"] \in Nat
      BY <2>1, <1>3 DEF RunInv, RunTypeOK, CallsCounted
    <3> QED
      BY ONLY <3>1, <1>3, <1>4
  <2>3. spc' = "tool" => Supported(Scenarios[at])'
    BY <1>1, <1>2 DEF Supported, registryVars
  <2> QED
    BY <2>2, <2>3, <1>1 DEF CallsCounted
<1> QED
  BY <1>1, <1>2, <1>3, <1>5, <1>6 DEF RunInv, ToolsFixed, RowTrue, registryVars

\* A tool that ends changes no count.
LEMMA ToolEndsKeepsRun == RunInv /\ ToolEnds => RunInv'
<1> SUFFICES ASSUME RunInv, ToolEnds
             PROVE  RunInv'
  OBVIOUS
<1>1. /\ spc = "tool" /\ (NextScenario \/ (spc' = "failed" /\ at' = at))
      /\ UNCHANGED <<registryVars, verdict, tally, audits, toolRuns, saved>>
  BY DEF ToolEnds, Fail
<1>2. /\ at' \in 1 .. Len(Scenarios) /\ spc' \in {"evaluate", "persist", "failed"}
      /\ spc' = "persist" => at' = Len(Scenarios)
  <2>1. CASE NextScenario
    BY <2>1, NextIsInList DEF RunInv
  <2>2. CASE spc' = "failed" /\ at' = at
    BY <2>2 DEF RunInv, RunTypeOK
  <2> QED
    BY <1>1, <2>1, <2>2
<1>3. RunTypeOK'
  BY <1>1, <1>2 DEF RunInv, RunTypeOK
<1>4. EntriesMatch'
  BY <1>1, <1>2 DEF RunInv, EntriesMatch, Entries, Uncounted
<1> QED
  BY <1>1, <1>2, <1>3, <1>4 DEF RunInv, CallsCounted, ToolsFixed, RowTrue, registryVars

\* The row is the counts of all scenarios.
LEMMA PersistKeepsRun == RunInv /\ Persist => RunInv'
<1> SUFFICES ASSUME RunInv, Persist
             PROVE  RunInv'
  OBVIOUS
<1>1. /\ spc = "persist" /\ spc' \in {"answered", "failed"} /\ saved' \in {NoRun, Row}
      /\ UNCHANGED <<registryVars, at, verdict, tally, audits, toolRuns>>
  BY DEF Persist, Fail
<1>2. RunTypeOK'
  BY <1>1 DEF RunInv, RunTypeOK
<1>3. \A d \in Outcomes \ {"unheard_of"} : Entries(d)' = tally'[d] /\ Uncounted(d)' = 0
  <2> SUFFICES ASSUME NEW d \in Outcomes \ {"unheard_of"}
               PROVE  Entries(d)' = tally'[d] /\ Uncounted(d)' = 0
    OBVIOUS
  <2>1. Entries(d) = tally[d] + Uncounted(d) /\ Uncounted(d) = 0 /\ tally[d] \in Nat
    BY <1>1 DEF RunInv, RunTypeOK, EntriesMatch, Uncounted
  <2> QED
    BY <2>1, <1>1 DEF Entries, Uncounted
<1>4. EntriesMatch'
  BY <1>2, <1>3 DEF EntriesMatch, RunTypeOK
<1>5. RowTrue'
  BY <1>1, <1>3 DEF RunInv, RowTrue, Row
<1> QED
  BY <1>1, <1>2, <1>4, <1>5 DEF RunInv, CallsCounted, ToolsFixed, registryVars

\* Whatever the scenarios, the rule files and the tools, a simulation keeps its invariant.
THEOREM RunAlways == Spec => []RunInv
<1>1. RunInv /\ FileOK /\ [Next]_vars => RunInv'
  <2> SUFFICES ASSUME RunInv, FileOK, [Next]_vars
               PROVE  RunInv'
    OBVIOUS
  <2>1. CASE RegistryNext /\ UNCHANGED <<fileVars, runVars>>
    BY <2>1, DiscoveryKeepsRun
  <2>2. CASE BeginEdit \/ EndEdit \/ UNCHANGED vars
    BY <2>2, StutterKeepsRun DEF BeginEdit, EndEdit, vars, registryVars
  <2>3. CASE Begin
    BY <2>3 DEF Begin, RunInv, RunTypeOK, EntriesMatch, Entries, Uncounted, CallsCounted,
                ToolsFixed, RowTrue, Row, registryVars
  <2> QED
    BY <2>1, <2>2, <2>3, EvaluateKeepsRun, AuditKeepsRun, WithholdKeepsRun, ExecuteKeepsRun,
       ToolEndsKeepsRun, PersistKeepsRun DEF Next
<1> QED
  BY <1>1, RunInitially, FileAlways, PTL DEF Spec

\* What a simulation reports is what it did: its row counts each scenario once, as the
\* audit log has it, and no tool is called without an audit entry, or against the dry run.
THEOREM SimulationsAreTrue == Spec => []SimulationTrue
<1>1. RunInv => SimulationTrue
  <2> SUFFICES ASSUME RunInv
               PROVE  SimulationTrue
    OBVIOUS
  <2>1. /\ \A d \in Outcomes \ {"unheard_of"} : tally[d] \in Nat /\ Entries(d) >= tally[d]
        /\ \A d \in Outcomes : audits[d] \in Nat
        /\ toolRuns \in Nat /\ toolRuns <= tally["allow"] + tally["log_and_allow"]
    BY DEF RunInv, RunTypeOK, EntriesMatch, CallsCounted
  <2>2. /\ audits["allow"] + audits["unheard_of"] >= tally["allow"]
        /\ audits["log_and_allow"] >= tally["log_and_allow"]
    BY <2>1 DEF Entries, Outcomes
  <2>3. /\ tally["allow"] \in Nat /\ tally["log_and_allow"] \in Nat
        /\ audits["allow"] \in Nat /\ audits["unheard_of"] \in Nat
        /\ audits["log_and_allow"] \in Nat
    BY <2>1 DEF Outcomes
  <2>4. toolRuns <= audits["allow"] + audits["log_and_allow"] + audits["unheard_of"]
    BY ONLY <2>1, <2>2, <2>3
  <2>5. ASSUME spc = "tool", verdict.decision # "unheard_of"
        PROVE  /\ Preview(verdict, Scenarios[at]).would_execute
               /\ Preview(verdict, Scenarios[at]).tool_valid
    BY <2>5 DEF RunInv, RunTypeOK, CallsCounted, Outcomes, Preview
  <2>6. ASSUME saved # NoRun
        PROVE  /\ saved.total = Len(Scenarios)
               /\ \A d \in {"block", "require_hitl", "log_and_allow"} : saved.summary[d] = audits[d]
               /\ saved.summary["allow"] = audits["allow"] + audits["unheard_of"]
               /\ toolRuns <= tally["allow"] + tally["log_and_allow"]
    <3>1. /\ saved.total = Len(Scenarios) /\ saved.summary = tally
          /\ \A d \in Outcomes \ {"unheard_of"} : Entries(d) = tally[d]
      BY <2>6 DEF RunInv, RowTrue, Row
    <3>2. /\ \A d \in {"block", "require_hitl", "log_and_allow"} : tally[d] = audits[d]
          /\ tally["allow"] = audits["allow"] + audits["unheard_of"]
      BY <3>1 DEF Entries, Outcomes
    <3> QED
      BY <3>1, <3>2, <2>1
  <2> QED
    BY <2>4, <2>5, <2>6 DEF SimulationTrue
<1> QED
  BY <1>1, RunAlways, PTL
=============================================================================
