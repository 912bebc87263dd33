------------------------------ MODULE Informer ------------------------------
(***************************************************************************)
(* What every controller of the manager assumes of the Kubernetes API      *)
(* server and of the informer cache its client reads through.  Neither is  *)
(* code of this repository; the definitions follow from how the            *)
(* reconcilers use client.Client.                                          *)
(*                                                                         *)
(* The history of one object is a non-empty sequence of its versions: the  *)
(* first is the one in the manager's cache, the last is the one stored by  *)
(* the API server, and those between were written but their watch events   *)
(* have not been delivered yet.                                            *)
(*                                                                         *)
(* A resourceVersion is never compared for order, only for "nothing was    *)
(* written since this copy was taken".  A copy is therefore represented by *)
(* a freshness bit: it is taken fresh when the cache is up to date, and    *)
(* every write to the object makes it stale.  An Update made with a stale  *)
(* copy is the API server's Conflict.                                      *)
(***************************************************************************)
EXTENDS Naturals, Sequences

\* What Get and List answer: the cached version.
Cached(log) == Head(log)

\* What the API server stores, and what a write applies to.
Current(log) == log[Len(log)]

\* A copy read now carries the stored object's resourceVersion.
UpToDate(log) == Len(log) = 1

\* A write that leaves the object as it is does not make a new version.
Write(log, v) == IF v = Current(log) THEN log ELSE Append(log, v)

\* One watch event reaches the cache.
Deliver(log) == Tail(log)

\* A restarted manager lists every object before its workers start.
Relist(log) == <<Current(log)>>
=============================================================================
