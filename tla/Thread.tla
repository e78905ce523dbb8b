------------------------------- MODULE Thread -------------------------------
(***************************************************************************)
(* sylar::Thread (sylar/thread.h, thread.cc) over pthreads: an object whose *)
(* constructor starts a thread and waits on m_semaphore until run(), in    *)
(* the new thread, has set it up; join; a destructor that detaches.  One   *)
(* owner creates, joins and destroys the objects, as test_thread.cc does,  *)
(* and may destroy one whose thread still runs.                            *)
(*                                                                         *)
(* The pthread handle is external; what POSIX leaves undefined (to detach  *)
(* a thread that was joined) is the state "misused".                       *)
(***************************************************************************)
EXTENDS Naturals

CONSTANTS
  Objects,    \* the Thread objects
  Nobody      \* the owner is inside no call

VARIABLES
  object,     \* each object: raw, constructing, alive, failed, destroyed
  handle,     \* its pthread: none, joinable, joined, detached, misused
  run,        \* where its thread is in run()
  semaphore,  \* the count of m_semaphore
  idSet,      \* m_id has been assigned
  cbTaken,    \* m_cb has been swapped into run()
  naming,     \* the thread is assigning m_name, in SetName
  owner       \* the object whose constructor or join the owner is inside

vars == <<object, handle, run, semaphore, idSet, cbTaken, naming, owner>>

Init ==
  /\ object = [o \in Objects |-> "raw"]
  /\ handle = [o \in Objects |-> "none"]
  /\ run = [o \in Objects |-> "none"]
  /\ semaphore = [o \in Objects |-> 0]
  /\ idSet = [o \in Objects |-> FALSE]
  /\ cbTaken = [o \in Objects |-> FALSE]
  /\ naming = [o \in Objects |-> FALSE]
  /\ owner = Nobody

Becomes(f, o, from, to) == f[o] = from /\ f' = [f EXCEPT ![o] = to]

-----------------------------------------------------------------------------
(* The owner.                                                              *)

(* The constructor, up to m_semaphore.wait(). *)
Create(o) ==
  /\ owner = Nobody
  /\ Becomes(object, o, "raw", "constructing")
  /\ Becomes(handle, o, "none", "joinable")
  /\ Becomes(run, o, "none", "setup")
  /\ owner' = o
  /\ UNCHANGED <<semaphore, idSet, cbTaken, naming>>

(* pthread_create fails: the constructor throws, there is no object. *)
CreateFails(o) ==
  /\ owner = Nobody
  /\ Becomes(object, o, "raw", "failed")
  /\ UNCHANGED <<handle, run, semaphore, idSet, cbTaken, naming, owner>>

(* Semaphore::wait returns, and with it the constructor.  Its mutant does  *)
(* not wait.                                                               *)
ReturnAtOnce(o) ==
  /\ owner = o
  /\ Becomes(object, o, "constructing", "alive")
  /\ owner' = Nobody
  /\ UNCHANGED <<handle, run, semaphore, idSet, cbTaken, naming>>

Constructed(o) ==
  /\ owner = o
  /\ semaphore[o] > 0
  /\ semaphore' = [semaphore EXCEPT ![o] = @ - 1]
  /\ Becomes(object, o, "constructing", "alive")
  /\ owner' = Nobody
  /\ UNCHANGED <<handle, run, idSet, cbTaken, naming>>

(* join(), called once per object. *)
Join(o) ==
  /\ owner = Nobody
  /\ object[o] = "alive"
  /\ handle[o] = "joinable"
  /\ owner' = o
  /\ UNCHANGED <<object, handle, run, semaphore, idSet, cbTaken, naming>>

(* pthread_join returns; m_thread keeps the handle.  Its mutant comes back *)
(* before the thread has ended.                                            *)
JoinAtOnce(o) ==
  /\ owner = o
  /\ object[o] = "alive"
  /\ Becomes(handle, o, "joinable", "joined")
  /\ owner' = Nobody
  /\ UNCHANGED <<object, run, semaphore, idSet, cbTaken, naming>>

Joined(o) ==
  /\ owner = o
  /\ object[o] = "alive"
  /\ run[o] = "done"
  /\ Becomes(handle, o, "joinable", "joined")
  /\ owner' = Nobody
  /\ UNCHANGED <<object, run, semaphore, idSet, cbTaken, naming>>

(* ~Thread: m_thread is never 0 here, so it always detaches.  Its mutant   *)
(* does not detach at all.                                                 *)
KeepHandle(o) == UNCHANGED handle
Detach(o) ==
  handle' = [handle EXCEPT ![o] = IF @ = "joinable" THEN "detached" ELSE "misused"]

Destroy(o) ==
  /\ owner = Nobody
  /\ Becomes(object, o, "alive", "destroyed")
  /\ Detach(o)
  /\ UNCHANGED <<run, semaphore, idSet, cbTaken, naming, owner>>

-----------------------------------------------------------------------------
(* The new thread, in run().                                               *)

(* t_thread, t_thread_name, m_id, the thread's name and the callback.  Its *)
(* mutant lets the creator go before the callback is taken over.           *)
NotifyFirst(o) ==
  /\ Becomes(run, o, "setup", "ready")
  /\ idSet' = [idSet EXCEPT ![o] = TRUE]
  /\ semaphore' = [semaphore EXCEPT ![o] = @ + 1]
  /\ UNCHANGED <<object, handle, cbTaken, naming, owner>>

SetUp(o) ==
  /\ Becomes(run, o, "setup", "ready")
  /\ idSet' = [idSet EXCEPT ![o] = TRUE]
  /\ cbTaken' = [cbTaken EXCEPT ![o] = TRUE]
  /\ UNCHANGED <<object, handle, semaphore, naming, owner>>

(* m_semaphore.notify().  Its mutant forgets it. *)
NoNotify(o) ==
  /\ Becomes(run, o, "ready", "body")
  /\ UNCHANGED <<object, handle, semaphore, idSet, cbTaken, naming, owner>>

Notify(o) ==
  /\ Becomes(run, o, "ready", "body")
  /\ semaphore' = [semaphore EXCEPT ![o] = @ + 1]
  /\ UNCHANGED <<object, handle, idSet, cbTaken, naming, owner>>

(* cb() calls SetName, which assigns m_name through t_thread, ... *)
SetNameBegin(o) ==
  /\ run[o] = "body"
  /\ Becomes(naming, o, FALSE, TRUE)
  /\ UNCHANGED <<object, handle, run, semaphore, idSet, cbTaken, owner>>

SetNameEnd(o) ==
  /\ Becomes(naming, o, TRUE, FALSE)
  /\ UNCHANGED <<object, handle, run, semaphore, idSet, cbTaken, owner>>

(* ... and returns. *)
BodyReturns(o) ==
  /\ ~naming[o]
  /\ Becomes(run, o, "body", "done")
  /\ UNCHANGED <<object, handle, semaphore, idSet, cbTaken, naming, owner>>

-----------------------------------------------------------------------------
RunStep(o) == SetUp(o) \/ Notify(o) \/ SetNameEnd(o)

Next ==
  \E o \in Objects :
    \/ Create(o)
    \/ CreateFails(o)
    \/ Constructed(o)
    \/ Join(o)
    \/ Joined(o)
    \/ Destroy(o)
    \/ RunStep(o)
    \/ SetNameBegin(o)
    \/ BodyReturns(o)

Spec == Init /\ [][Next]_vars

(* run() keeps going, and a wait on a raised semaphore ends.  A callback   *)
(* need not return.                                                        *)
Fairness ==
  \A o \in Objects : WF_vars(RunStep(o)) /\ WF_vars(Constructed(o))

FairSpec == Spec /\ Fairness

-----------------------------------------------------------------------------
(* Type invariant. *)
TypeOK ==
  /\ object \in [Objects -> {"raw", "constructing", "alive", "failed", "destroyed"}]
  /\ handle \in [Objects -> {"none", "joinable", "joined", "detached", "misused"}]
  /\ run \in [Objects -> {"none", "setup", "ready", "body", "done"}]
  /\ semaphore \in [Objects -> 0..1]
  /\ idSet \in [Objects -> BOOLEAN]
  /\ cbTaken \in [Objects -> BOOLEAN]
  /\ naming \in [Objects -> BOOLEAN]
  /\ owner \in Objects \cup {Nobody}

(* The owner never sees a half-made thread: when the constructor returns,  *)
(* getId() is the thread's id and run() has taken m_cb over                *)
(* (thread.cc:19-23, 51-60).                                               *)
ReadyOnReturn ==
  \A o \in Objects : object[o] \in {"alive", "destroyed"} => idSet[o] /\ cbTaken[o]

(* While run() still uses the object it was given, up to and including the *)
(* notify, the object exists (thread.cc:51-59).                            *)
SetUpUsesLiveObject ==
  \A o \in Objects : run[o] \in {"setup", "ready"} => object[o] = "constructing"

(* No thread is leaked: once its object is gone the pthread has been       *)
(* joined or detached, and a constructor that threw left none              *)
(* (thread.cc:19-29).                                                      *)
HandleReleased ==
  \A o \in Objects :
    /\ object[o] = "destroyed" => handle[o] # "joinable"
    /\ object[o] = "failed" => handle[o] = "none"

(* The destructor detaches a thread that may be detached                   *)
(* (thread.cc:25-34).                                                      *)
HandleNotMisused == \A o \in Objects : handle[o] # "misused"

(* SetName writes to the object through t_thread (thread.cc:44-49).  An    *)
(* owner that joins before it destroys can rely on the object being alive  *)
(* then: the write meets a dead object only after a detach.                *)
JoinedIsQuiet ==
  \A o \in Objects : naming[o] =>
    object[o] = "alive" \/ object[o] = "constructing" \/ handle[o] = "detached"

(* A constructor that started its thread returns (thread.cc:19-23).        *)
ConstructorReturns ==
  \A o \in Objects : object[o] = "constructing" ~> object[o] = "alive"

-----------------------------------------------------------------------------
(* The inductive invariant: how far the constructor and run() have come    *)
(* with each other.                                                        *)
Handshake(o) ==
  /\ run[o] \in {"setup", "ready"} => object[o] = "constructing" /\ semaphore[o] = 0
  /\ run[o] \in {"ready", "body", "done"} => idSet[o] /\ cbTaken[o]
  /\ semaphore[o] > 0 => object[o] = "constructing" /\ run[o] \in {"body", "done"}
  /\ object[o] \in {"alive", "destroyed"} => run[o] \in {"body", "done"}
  /\ object[o] \in {"raw", "failed"} => run[o] = "none" /\ handle[o] = "none"
  /\ object[o] \in {"constructing", "alive"} => handle[o] \in {"joinable", "joined"}
  /\ object[o] = "destroyed" => handle[o] \in {"detached", "misused"}
  /\ naming[o] => run[o] = "body"
  /\ handle[o] \in {"joined", "misused"} => run[o] = "done"

(* Safety of every run: constructor and run() stay in step                 *)
(* (thread.cc:14-34, 51-62).                                               *)
IInv == TypeOK /\ \A o \in Objects : Handshake(o)
=============================================================================
