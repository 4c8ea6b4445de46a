----------------------------- MODULE ServerUnload -----------------------------
(* When the media source's library may be unloaded (crates/media-source:      *)
(* com_server.rs, activation.rs, MediaSource::create, MediaStream::new and    *)
(* the Drop implementations).                                                 *)
(*                                                                            *)
(* The camera service loads the library, makes an activation object through   *)
(* the class factory and lets it create the source; the source's stream runs  *)
(* a thread that reads the pipe.  The library counts its objects, and the     *)
(* service asks DllCanUnloadNow.  A count goes down first in a Drop, and the  *)
(* fields, the reading thread among them, go afterwards.                      *)
(*                                                                            *)
(* Assumed of COM: it does not ask for a class while it asks whether it may   *)
(* unload, and it lets a thread leave its last Release before it does.        *)
EXTENDS Naturals, FiniteSets

CONSTANTS
    Activations,    \* activation objects, as long as they are needed
    Sources,        \* bound: sources created
    None,           \* no source
    MaxFactories,   \* bound: class factories held at a time
    MaxLocks        \* bound: LockServer calls

ServerAssumption ==
    /\ None \notin Sources
    /\ MaxFactories \in Nat /\ MaxLocks \in Nat

VARIABLES
    module,     \* loaded or unloaded
    objects,    \* OBJECTS
    locks,      \* SERVER_LOCKS
    factories,  \* class factories somebody holds
    activation, \* [at, active, creates]: active_source, and a source under way
    source,     \* how far each source has come
    held,       \* the sources the service holds
    cycle,      \* the sources whose stream holds them (StreamState.parent)
    reader      \* the thread of each stream

vars == <<module, objects, locks, factories, activation, source, held, cycle,
          reader>>

Free == [at |-> "free", active |-> None, creates |-> None]

Init ==
    /\ module = "unloaded" /\ objects = 0 /\ locks = 0 /\ factories = 0
    /\ activation = [a \in Activations |-> Free]
    /\ source = [s \in Sources |-> "new"]
    /\ held = {} /\ cycle = {}
    /\ reader = [s \in Sources |-> "none"]

----------------------------------------------------------------------------
\* The library.

\* DllMain
Load ==
    /\ module = "unloaded"
    /\ module' = "loaded"
    /\ UNCHANGED <<objects, locks, factories, activation, source, held, cycle,
                   reader>>

CanUnload == objects = 0 /\ locks = 0

\* DllCanUnloadNow says yes.
Unload ==
    /\ module = "loaded" /\ CanUnload
    /\ module' = "unloaded"
    /\ UNCHANGED <<objects, locks, factories, activation, source, held, cycle,
                   reader>>

\* DllGetClassObject
GetClassObject ==
    /\ module = "loaded" /\ factories < MaxFactories
    /\ factories' = factories + 1 /\ objects' = objects + 1
    /\ UNCHANGED <<module, locks, activation, source, held, cycle, reader>>

ReleaseFactory ==
    /\ factories > 0
    /\ factories' = factories - 1 /\ objects' = objects - 1
    /\ UNCHANGED <<module, locks, activation, source, held, cycle, reader>>

\* LockServer; an unlock too many is ignored.
LockServer ==
    /\ factories > 0
    /\ \/ locks < MaxLocks /\ locks' = locks + 1
       \/ locks' = IF locks = 0 THEN 0 ELSE locks - 1
    /\ UNCHANGED <<module, objects, factories, activation, source, held, cycle,
                   reader>>

----------------------------------------------------------------------------
\* The activation object.

\* ClassFactory::CreateInstance
CreateInstance(a) ==
    /\ factories > 0 /\ activation[a].at = "free"
    /\ activation' = [activation EXCEPT ![a].at = "held"]
    /\ objects' = objects + 1
    /\ UNCHANGED <<module, locks, factories, source, held, cycle, reader>>

\* No call holds active_source's lock.
Unlocked(a) == activation[a].at = "held" /\ activation[a].creates = None

(* ActivateObject: the source it has, or a new one.  MediaStream::new counts  *)
(* the stream and starts its thread.                                          *)
Activate(a) ==
    /\ Unlocked(a)
    /\ \/ /\ activation[a].active # None
          /\ held' = held \cup {activation[a].active}
          /\ UNCHANGED <<objects, activation, source, reader>>
       \/ /\ activation[a].active = None
          /\ \E s \in Sources :
                /\ source[s] = "new"
                /\ source' = [source EXCEPT ![s] = "stream"]
                /\ reader' = [reader EXCEPT ![s] = "running"]
                /\ activation' = [activation EXCEPT ![a].creates = s]
          /\ objects' = objects + 1
          /\ UNCHANGED held
    /\ UNCHANGED <<module, locks, factories, cycle>>

\* A bug: the stream does not hold its source.
BugAttached(s) == cycle

\* attach_parent
Attached(s) == cycle \cup {s}

\* The source is complete: the end of MediaSource::create.
Created(a) ==
    /\ activation[a].creates # None
    /\ LET s == activation[a].creates
       IN /\ source[s] = "stream"
          /\ source' = [source EXCEPT ![s] = "alive"]
          /\ cycle' = Attached(s)
          /\ held' = held \cup {s}
          /\ activation' = [activation EXCEPT ![a].creates = None,
                                              ![a].active = s]
    /\ objects' = objects + 1
    /\ UNCHANGED <<module, locks, factories, reader>>

\* A bug: a stream that is given up stays counted.
BugCreateFails(a) ==
    /\ activation[a].creates # None
    /\ LET s == activation[a].creates
       IN /\ source[s] = "stream"
          /\ source' = [source EXCEPT ![s] = "dropped"]
    /\ UNCHANGED <<module, objects, locks, factories, activation, held, cycle,
                   reader>>

(* It cannot be completed: the stream is dropped, and counted down first.     *)
CreateFails(a) ==
    /\ activation[a].creates # None
    /\ LET s == activation[a].creates
       IN /\ source[s] = "stream"
          /\ source' = [source EXCEPT ![s] = "dropped"]
    /\ objects' = objects - 1
    /\ UNCHANGED <<module, locks, factories, activation, held, cycle, reader>>

\* ActivateObject returns the error.
ActivateReturns(a) ==
    /\ activation[a].creates # None
    /\ source[activation[a].creates] = "freed"
    /\ activation' = [activation EXCEPT ![a].creates = None]
    /\ UNCHANGED <<module, objects, locks, factories, source, held, cycle,
                   reader>>

\* DetachObject; ShutdownObject does nothing.
DetachObject(a) ==
    /\ Unlocked(a)
    /\ activation' = [activation EXCEPT ![a].active = None]
    /\ UNCHANGED <<module, objects, locks, factories, source, held, cycle,
                   reader>>

\* The last reference to the activation object; it shuts nothing down.
ReleaseActivation(a) ==
    /\ Unlocked(a)
    /\ activation' = [activation EXCEPT ![a] = Free]
    /\ objects' = objects - 1
    /\ UNCHANGED <<module, locks, factories, source, held, cycle, reader>>

----------------------------------------------------------------------------
\* The source and its stream.

\* MediaSource::Shutdown until the stream has let go of its source
Shutdown(s) ==
    /\ s \in held /\ source[s] = "alive"
    /\ source' = [source EXCEPT ![s] = "shutting down"]
    /\ cycle' = cycle \ {s}
    /\ UNCHANGED <<module, objects, locks, factories, activation, held, reader>>

\* PipeReader::stop
StopReader(s) ==
    /\ source[s] = "shutting down"
    /\ source' = [source EXCEPT ![s] = "shut down"]
    /\ reader' = [reader EXCEPT ![s] = "stopped"]
    /\ UNCHANGED <<module, objects, locks, factories, activation, held, cycle>>

\* The service releases it, shut down or not; a call under way holds it.
ReleaseSource(s) ==
    /\ s \in held /\ source[s] # "shutting down"
    /\ held' = held \ {s}
    /\ UNCHANGED <<module, objects, locks, factories, activation, source, cycle,
                   reader>>

Referenced(s) ==
    s \in held \cup cycle \/ \E a \in Activations : activation[a].active = s

\* Drop of MediaSource, which then lets go of its stream
DropSource(s) ==
    /\ source[s] \in {"alive", "shut down"} /\ ~Referenced(s)
    /\ source' = [source EXCEPT ![s] = "stream left"]
    /\ objects' = objects - 1
    /\ UNCHANGED <<module, locks, factories, activation, held, cycle, reader>>

\* Drop of MediaStream, before its fields
DropStream(s) ==
    /\ source[s] = "stream left"
    /\ source' = [source EXCEPT ![s] = "dropped"]
    /\ objects' = objects - 1
    /\ UNCHANGED <<module, locks, factories, activation, held, cycle, reader>>

\* Drop of PipeReader, which waits for the thread if it still runs
DropReader(s) ==
    /\ source[s] = "dropped"
    /\ source' = [source EXCEPT ![s] = "freed"]
    /\ reader' = [reader EXCEPT ![s] = "stopped"]
    /\ UNCHANGED <<module, objects, locks, factories, activation, held, cycle>>

Next ==
    \/ Load \/ Unload \/ GetClassObject \/ ReleaseFactory \/ LockServer
    \/ \E a \in Activations :
          \/ CreateInstance(a) \/ Activate(a) \/ Created(a) \/ CreateFails(a)
          \/ ActivateReturns(a) \/ DetachObject(a) \/ ReleaseActivation(a)
    \/ \E s \in Sources :
          \/ Shutdown(s) \/ StopReader(s) \/ ReleaseSource(s)
          \/ DropSource(s) \/ DropStream(s) \/ DropReader(s)

Spec == Init /\ [][Next]_vars

----------------------------------------------------------------------------
Stages == {"new", "stream", "alive", "shutting down", "shut down",
           "stream left", "dropped", "freed"}

TypeOK ==
    /\ module \in {"loaded", "unloaded"}
    /\ objects \in Nat /\ locks \in 0 .. MaxLocks
    /\ factories \in 0 .. MaxFactories
    /\ activation \in [Activations -> [at : {"free", "held"},
                                       active : Sources \cup {None},
                                       creates : Sources \cup {None}]]
    /\ source \in [Sources -> Stages]
    /\ held \subseteq Sources /\ cycle \subseteq Sources
    /\ reader \in [Sources -> {"none", "running", "stopped"}]

Gone(s) == source[s] \in {"new", "dropped", "freed"}

Nothing ==
    /\ factories = 0 /\ \A a \in Activations : activation[a].at = "free"
    /\ \A s \in Sources : Gone(s)

(* The library is unloaded only when nothing of it is left, and above all no  *)
(* thread that runs its code: one that still reads the pipe would go on in    *)
(* memory that is gone.  It is unloaded when nothing is left: the count goes  *)
(* back to zero on the paths that fail, too.                                  *)
UnloadIsSafe ==
    /\ module = "unloaded" =>
          Nothing /\ \A s \in Sources : reader[s] # "running"
    /\ Nothing => objects = 0
=============================================================================
