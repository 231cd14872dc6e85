---------------------------- MODULE SecretManager ----------------------------
(***************************************************************************)
(* Workload certificates in the agent                                      *)
(* (security/pkg/nodeagent/cache/secretcache.go): SDS streams that ask     *)
(* GenerateSecret for the workload certificate and the root, the cache,    *)
(* the CSR to the CA, and the rotation task in the delay queue.            *)
(*                                                                         *)
(* A certificate is its serial number, a root its generation, 0 for none.  *)
(* An SDS stream asks at the start, when its proxy is told of an update by *)
(* the callback, and again after an error.  Certificates from files, trust *)
(* bundles and the copies written to disk are left out.                    *)
(***************************************************************************)
EXTENDS Naturals

CONSTANTS SdsStreams,
          MaxSerial,  \* bound: certificates issued
          MaxRoot     \* bound: roots of the CA

VARIABLES workload,   \* cache.workload
          root,       \* cache.root
          caRoot,     \* the CA's root
          serial,     \* the last certificate issued
          rotations,  \* rotation tasks in the delay queue
          rotating,   \* the rotation task cleared the cache and is about to call back
          stream      \* SDS streams: where they are and what they have

secretVars == <<workload, root, caRoot, serial, rotations, rotating, stream>>

SecretInit ==
  /\ workload  = 0
  /\ root      = 0
  /\ caRoot    = 1
  /\ serial    = 0
  /\ rotations = {}
  /\ rotating  = FALSE
  /\ stream    = [s \in SdsStreams |-> [pc |-> "idle", wantCert |-> TRUE, wantRoot |-> TRUE,
                                        cert |-> 0, root |-> 0]]

Got(s, cert) == [stream EXCEPT ![s].pc = "idle", ![s].cert = cert]

(***************************************************************************)
(* CallUpdateCallback: the SDS server pushes to every stream.              *)
(***************************************************************************)
NotifyRoot(st) == [s \in SdsStreams |-> [st[s] EXCEPT !.wantRoot = TRUE]]

-----------------------------------------------------------------------------
(***************************************************************************)
(* GenerateSecret for the workload certificate: the cache, else            *)
(* generateMutex and the cache again, else a CSR.                          *)
(***************************************************************************)
GenerateSecret(s) ==
  /\ stream[s].pc = "idle" /\ stream[s].wantCert
  /\ stream' = [stream EXCEPT ![s].wantCert = FALSE,
                              ![s].pc = IF workload = 0 THEN "lock" ELSE "idle",
                              ![s].cert = IF workload = 0 THEN @ ELSE workload]
  /\ UNCHANGED <<workload, root, caRoot, serial, rotations, rotating>>

MutexFree == \A s \in SdsStreams : stream[s].pc \notin {"csr", "register"}

\* Variant with a bug: the cache is not looked up again under the mutex.
LockMutexBlindly(s) ==
  /\ stream[s].pc = "lock" /\ MutexFree
  /\ stream' = [stream EXCEPT ![s].pc = "csr"]
  /\ UNCHANGED <<workload, root, caRoot, serial, rotations, rotating>>

LockMutex(s) ==
  /\ stream[s].pc = "lock" /\ MutexFree
  /\ stream' = IF workload = 0 THEN [stream EXCEPT ![s].pc = "csr"] ELSE Got(s, workload)
  /\ UNCHANGED <<workload, root, caRoot, serial, rotations, rotating>>

(***************************************************************************)
(* generateSecret: the CA signs; a root it has not returned before goes to *)
(* the cache and to the streams.                                           *)
(***************************************************************************)
CSRSign(s) ==
  /\ stream[s].pc = "csr"
  /\ serial < MaxSerial
  /\ serial' = serial + 1
  /\ root' = caRoot
  /\ LET st == [stream EXCEPT ![s].pc = "register"]
     IN  stream' = IF root = caRoot THEN st ELSE NotifyRoot(st)
  /\ UNCHANGED <<workload, caRoot, rotations, rotating>>

CSRFails(s) ==
  /\ stream[s].pc = "csr"
  /\ stream' = [stream EXCEPT ![s].pc = "idle", ![s].wantCert = TRUE]
  /\ UNCHANGED <<workload, root, caRoot, serial, rotations, rotating>>

(***************************************************************************)
(* registerSecret: cache the certificate and schedule its rotation, unless *)
(* one is cached.  The mutex makes the last one issued the stream's own.   *)
(***************************************************************************)
RegisterSecret(s) ==
  /\ stream[s].pc = "register"
  /\ workload' = IF workload = 0 THEN serial ELSE workload
  /\ rotations' = IF workload = 0 THEN rotations \cup {serial} ELSE rotations
  /\ stream' = Got(s, serial)
  /\ UNCHANGED <<root, caRoot, serial, rotating>>

(***************************************************************************)
(* The rotation task, in a worker of the delay queue: clear the cache,     *)
(* then call back.                                                         *)
(***************************************************************************)
Rotate(c) ==
  /\ c \in rotations
  /\ ~rotating
  /\ rotations' = rotations \ {c}
  /\ workload' = 0
  /\ rotating' = TRUE
  /\ UNCHANGED <<root, caRoot, serial, stream>>

NotifyRotated ==
  /\ rotating
  /\ rotating' = FALSE
  /\ stream' = [s \in SdsStreams |-> [stream[s] EXCEPT !.wantCert = TRUE]]
  /\ UNCHANGED <<workload, root, caRoot, serial, rotations>>

(***************************************************************************)
(* GenerateSecret for the root, which waits for one, and a new root at the *)
(* CA.                                                                     *)
(***************************************************************************)
GenerateRoot(s) ==
  /\ stream[s].pc = "idle" /\ stream[s].wantRoot
  /\ root # 0
  /\ stream' = [stream EXCEPT ![s].wantRoot = FALSE, ![s].root = root]
  /\ UNCHANGED <<workload, root, caRoot, serial, rotations, rotating>>

ChangeRoot ==
  /\ caRoot < MaxRoot
  /\ caRoot' = caRoot + 1
  /\ UNCHANGED <<workload, root, serial, rotations, rotating, stream>>

SecretNext ==
  \/ \E s \in SdsStreams : \/ GenerateSecret(s) \/ LockMutex(s) \/ CSRSign(s) \/ CSRFails(s)
                           \/ RegisterSecret(s) \/ GenerateRoot(s)
  \/ \E c \in rotations : Rotate(c)
  \/ NotifyRotated \/ ChangeRoot

SecretSpec == SecretInit /\ [][SecretNext]_secretVars

-----------------------------------------------------------------------------
(***************************************************************************)
(* A certificate in use is never forgotten: the cached one has the only    *)
(* rotation task, and a stream that has another one, or an old root, has   *)
(* been told or is about to be.  So concurrent calls end up with the same  *)
(* certificate, however they and the rotation interleave.                  *)
(***************************************************************************)
RotationCoversAll ==
  /\ rotations = {workload} \ {0}
  /\ \A s \in SdsStreams :
       /\ \/ stream[s].cert \in {0, workload} \/ rotating
          \/ stream[s].wantCert \/ stream[s].pc # "idle"
       /\ stream[s].root = root \/ stream[s].wantRoot
=============================================================================
