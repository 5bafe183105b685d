---------------------------- MODULE ToolRegistry ----------------------------
(***************************************************************************)
(* The discovery of tool plugins: discover_plugins and register_tool of    *)
(* app/plugins/discovery.py, ToolRegistry, validate_plugin.  It runs once  *)
(* in a process, when the first ToolExecutor is made.                      *)
(*                                                                         *)
(* A plugin file either loads or raises; its classes have a name, pass     *)
(* validate_plugin or not, have a constructor that returns or raises, and  *)
(* are decorated with register_tool or not; each has a set of actions.     *)
(***************************************************************************)
EXTENDS Integers, Sequences

CONSTANTS
  Names,            \* tool names
  PluginFiles,      \* directories that may be found: sequences of files
  NoPlugin          \* no such tool

PluginClass == [name : Names, actions : SUBSET STRING,
                valid : BOOLEAN, builds : BOOLEAN, decorated : BOOLEAN]
PluginFile == [loads : BOOLEAN, classes : Seq(PluginClass)]

ASSUME FilesAssumption == PluginFiles \subseteq Seq(PluginFile)
ASSUME NoPluginAssumption == NoPlugin \notin PluginClass

VARIABLES
  found,            \* the files of the directories, in the order they are walked
  files,            \* those still to load
  queue,            \* registrations the loaded file has still to make
  registry,         \* _plugins
  discovery         \* "running", "complete", or "broken": the import has failed

registryVars == <<found, files, queue, registry, discovery>>

RegistryInit ==
  /\ found \in PluginFiles
  /\ files = found
  /\ queue = <<>>
  /\ registry = [n \in Names |-> NoPlugin]
  /\ discovery = "running"

By(way, classes) == [i \in DOMAIN classes |-> [way |-> way, class |-> classes[i]]]

\* Loading a file makes its classes, with their decorators; then they are looked through.
\* A file that raises, after some of its classes, is noted and passed over.
LoadFile ==
  /\ discovery = "running" /\ queue = <<>> /\ files # <<>>
  /\ files' = Tail(files)
  /\ LET classes == Head(files).classes
         made == By("decorator", classes)
     IN IF Head(files).loads
          THEN queue' = made \o By("scan", classes)
          ELSE \E n \in 0 .. Len(classes) : queue' = SubSeq(made, 1, n)
  /\ UNCHANGED <<found, registry, discovery>>

\* A class of a name that is taken is not looked at; a decorator does not ask, but not
\* every class has one.
Passed(r) ==
  \/ r.way = "scan" /\ registry[r.class.name] # NoPlugin
  \/ r.way = "decorator" /\ ~r.class.decorated

\* Mutated form: a class is entered, and then found invalid.
Register_unvalidated(r) == registry' = [registry EXCEPT ![r.class.name] = r.class]

Register(r) ==
  registry' = IF r.class.valid THEN [registry EXCEPT ![r.class.name] = r.class]
              ELSE registry

\* registry.register: a constructor that raises is the file's failure when a decorator
\* calls it, and the application's when the scan does, which nothing guards.
RegisterNext ==
  LET r == Head(queue)
      raises == r.class.valid /\ ~r.class.builds /\ ~Passed(r)
  IN
  /\ discovery = "running" /\ queue # <<>>
  /\ IF raises
       THEN /\ queue' = <<>>
            /\ discovery' = IF r.way = "scan" THEN "broken" ELSE discovery
            /\ UNCHANGED registry
       ELSE /\ queue' = Tail(queue)
            /\ IF Passed(r) THEN UNCHANGED registry ELSE Register(r)
            /\ UNCHANGED discovery
  /\ UNCHANGED <<found, files>>

FinishDiscovery ==
  /\ discovery = "running" /\ queue = <<>> /\ files = <<>>
  /\ discovery' = "complete"
  /\ UNCHANGED <<found, files, queue, registry>>

RegistryNext == LoadFile \/ RegisterNext \/ FinishDiscovery

-----------------------------------------------------------------------------
\* A file's classes count if it loads and none of their constructors raises.
Sound(file) == file.loads /\ \A i \in DOMAIN file.classes : file.classes[i].builds

\* When discovery is complete a name stands for a valid plugin of one of the files, and
\* every name that a valid class of a file without failures has stands for one: neither
\* invalid classes nor files that fail keep the others out.
EveryToolFound ==
  discovery = "complete" =>
    \A n \in Names :
      /\ registry[n] # NoPlugin => registry[n].valid /\ registry[n].name = n
      /\ (\E f \in DOMAIN found : Sound(found[f]) /\
            \E c \in DOMAIN found[f].classes :
              found[f].classes[c].valid /\ found[f].classes[c].name = n)
           => registry[n] # NoPlugin
=============================================================================
