---------------------------- MODULE PodRestarter ----------------------------
(***************************************************************************)
(* k8s-pod-restarter: an operation, asked for by command, HTTP request or  *)
(* cron job, lists the pods of a selector and deletes them one by one BY   *)
(* NAME; their controllers create them anew.  Operations overlap: nothing  *)
(* keeps a job from running while a request or the same job does.          *)
(***************************************************************************)
EXTENDS Integers, FiniteSets

CONSTANTS
  Slots,       \* places controllers keep filled with a pod
  Stable,      \* those of a StatefulSet: the new pod has the old one's name
  Protected,   \* those of a DaemonSet, or annotated kubelet.kubernetes.io/config.source,
               \* which is what isDaemonOrStatic takes for a static pod
  Operations,  \* operations that may run at once
  Choices,     \* their options: [DryRun, Force, MaxAge]
  MaxTime,     \* bound: the clock
  MaxPods      \* bound: pods ever created

VARIABLES
  now,      \* the clock
  pods,     \* the pods there are: [slot, uid, born]
  ending,   \* uids of those in their grace period
  created,  \* pods created so far; a pod's uid is its number
  todo      \* listed pods the operations have still to look at: [by, pod, options]

vars == <<now, pods, ending, created, todo>>

-----------------------------------------------------------------------------
Pod  == [slot: Slots, uid: 1 .. MaxPods, born: 0 .. MaxTime]
Item == [by: Operations, pod: Pod, options: Choices]

TypeOK ==
  /\ now \in 0 .. MaxTime /\ created \in 0 .. MaxPods
  /\ pods \subseteq Pod /\ ending \subseteq {p.uid : p \in pods}
  /\ todo \subseteq Item

\* A pod in each slot, and some numbering of them.
Numbering == CHOOSE f \in [Slots -> 1 .. Cardinality(Slots)] :
               \A a, b \in Slots : a # b => f[a] # f[b]

Init ==
  /\ now = 0 /\ ending = {} /\ todo = {}
  /\ created = Cardinality(Slots)
  /\ pods = {[slot |-> a, uid |-> Numbering[a], born |-> 0] : a \in Slots}

NameOf(p) == IF p.slot \in Stable THEN p.slot ELSE p.uid

isDaemonOrStatic(p) == p.slot \in Protected

\* Created less than MaxAge ago; with a MaxAge of zero no pod is too new.
TooOld(p, options) == options.MaxAge > 0 /\ p.born + options.MaxAge <= now
TooNew(p, options) == options.MaxAge > 0 /\ p.born + options.MaxAge > now

\* What Delete ends: the pod that has that name now.  If there is none the
\* call fails.
Named(p) == {q.uid : q \in {q \in pods : NameOf(q) = NameOf(p)}}

-----------------------------------------------------------------------------
\* List of RestartPods, with the options of whoever asked; if it fails the
\* operation is over.
List(o) ==
  /\ \A item \in todo : item.by # o
  /\ \E options \in Choices :
       todo' = todo \union {[by |-> o, pod |-> p, options |-> options] : p \in pods}
  /\ UNCHANGED <<now, pods, ending, created>>

\* One turn of its loop.  Delete may fail, the more so once the context of a
\* job is cancelled; the loop goes on.
Visit(o) ==
  \E item \in todo :
    /\ item.by = o
    /\ todo' = todo \ {item}
    /\ \/ ending' = ending
       \/ /\ ~TooNew(item.pod, item.options)
          /\ item.options.Force \/ ~isDaemonOrStatic(item.pod)
          /\ ~item.options.DryRun
          /\ ending' = ending \union Named(item.pod)
    /\ UNCHANGED <<now, pods, created>>

RestartPods(o) == List(o) \/ Visit(o)

\* A signal makes Shutdown return the server, or the scheduler wait five
\* seconds, and main exits: neither waits for an operation to end.
Exit == todo # {} /\ todo' = {} /\ UNCHANGED <<now, pods, ending, created>>

-----------------------------------------------------------------------------
(* The cluster.                                                             *)

\* A Deployment replaces a pod that is ending, a StatefulSet waits until it
\* is gone.
Create(slot) ==
  /\ created < MaxPods
  /\ \A p \in pods : p.slot = slot => p.uid \in ending /\ slot \notin Stable
  /\ created' = created + 1
  /\ pods' = pods \union {[slot |-> slot, uid |-> created + 1, born |-> now]}
  /\ UNCHANGED <<now, ending, todo>>

\* A pod is evicted, or its grace period is over.
Evict(p) == /\ p.uid \notin ending /\ ending' = ending \union {p.uid}
            /\ UNCHANGED <<now, pods, created, todo>>
Gone(p) == /\ p.uid \in ending
           /\ pods' = pods \ {p} /\ ending' = ending \ {p.uid}
           /\ UNCHANGED <<now, created, todo>>

Tick == /\ now < MaxTime /\ now' = now + 1
        /\ UNCHANGED <<pods, ending, created, todo>>

Cluster == \/ \E slot \in Slots : Create(slot)
           \/ \E p \in pods : Evict(p) \/ Gone(p)
           \/ Tick

Next == (\E o \in Operations : RestartPods(o)) \/ Exit \/ Cluster

Spec == Init /\ [][Next]_vars

-----------------------------------------------------------------------------
\* The operation of an item has the pod on its list.
Listed(p, item) == \E other \in todo : other.by = item.by /\ other.pod = p

\* What an operation ends was neither protected, unless it is forced, nor
\* younger than MaxAge, though the list it works from grows old and others
\* delete and create pods meanwhile.  The exception is the name of a
\* StatefulSet's pod, which may have come to stand for a newer pod than the
\* one listed.
EndsOnlyWhatItMay ==
  [][\A item \in todo \ todo', p \in pods : p.uid \in ending' \ ending =>
       /\ ~item.options.DryRun
       /\ item.options.Force \/ p.slot \notin Protected
       /\ now - p.born < item.options.MaxAge => p.slot \in Stable /\ ~Listed(p, item)]_vars
=============================================================================
