-------------------------- MODULE OnboardingProofs ----------------------------
(***************************************************************************)
(* What holds of enrolment for every set of names, addresses, keys and     *)
(* requests, and any number of attempts.                                   *)
(***************************************************************************)
EXTENDS Onboarding, TLAPS

\* A key the operator accepted waits for its confirmation together with the
\* fact that it was accepted, and stays the key that was shown.
AcceptedIsApproved ==
    \A t \in Attempts : attempt[t].stage \in {"queued", "checking"} =>
        <<attempt[t].req.endpoint, attempt[t].key>> \in approved

\* What is on file under a name was asked for under that name.
Provenance ==
    \A n \in Hosts : disk[n] # Absent =>
        \E r \in Requests : r.name = n /\ r.endpoint = disk[n].endpoint

-----------------------------------------------------------------------------
(* Types *)

\* The step lemmas below distinguish the actions by what they leave alone.
LEMMA TypesKept == TypeOK /\ [Next]_vars => TypeOK'
<1> SUFFICES ASSUME TypeOK, [Next]_vars PROVE TypeOK'
  OBVIOUS
<1> USE AbsentIsNothing, AttemptsBounded, NobodyIsNoTry, RequestsTyped
<1>1. ASSUME NEW t \in Attempts, NEW r \in Requests, Discover(t, r) PROVE TypeOK'
  BY <1>1 DEF TypeOK, Discover, stores, Stages
<1>2. ASSUME NEW t \in Attempts, DiscoverFails(t) PROVE TypeOK'
  BY <1>2 DEF TypeOK, DiscoverFails, stores, Stages, Close, Blank
<1>3. ASSUME NEW t \in Attempts, Offer(t) PROVE TypeOK'
  <2>1. attempt[t].req \in Requests /\ presented[attempt[t].req.endpoint] \in Keys
    BY <1>3 DEF TypeOK, Offer, Request
  <2>2. ASSUME NEW u \in Attempts
        PROVE  /\ attempt'[u] \in [req : Requests \cup {Absent}, stage : Stages,
                                   key : Keys \cup {Absent}]
               /\ attempt'[u].stage \notin {"none", "closed"} => attempt'[u].req \in Requests
               /\ attempt'[u].stage \notin {"none", "closed", "asking"} => attempt'[u].key \in Keys
               /\ attempt'[u].stage = "checking" <=> lock' = u
    <3>1. CASE u = t
      BY <1>3, <2>1, <3>1 DEF TypeOK, Offer, Stages
    <3>2. CASE u # t /\ attempt[u].stage = "overdue"
      BY <1>3, <3>2 DEF TypeOK, Offer, Stages, Blank
    <3>3. CASE u # t /\ attempt[u].stage # "overdue"
      BY <1>3, <3>3 DEF TypeOK, Offer
    <3>4. QED BY <3>1, <3>2, <3>3
  <2>3. DOMAIN attempt' = Attempts
        /\ attempt' = [u \in Attempts |-> attempt'[u]]
    BY <1>3 DEF Offer
  <2>4. attempt' \in [Attempts -> [req : Requests \cup {Absent}, stage : Stages,
                                  key : Keys \cup {Absent}]]
    BY <2>2, <2>3
  <2>5. QED
    BY <1>3, <2>2, <2>4 DEF TypeOK, Offer, stores
<1>4. ASSUME NEW t \in Attempts, NEW trust \in BOOLEAN, Decide(t, trust) PROVE TypeOK'
  BY <1>4 DEF TypeOK, Decide, stores, Stages, Close, Blank, Request
<1>5. ASSUME NEW t \in Attempts, BeginLookup(t) PROVE TypeOK'
  BY <1>5 DEF TypeOK, BeginLookup, stores, Stages
<1>6. ASSUME NEW t \in Attempts, LookupFails(t) PROVE TypeOK'
  BY <1>6 DEF TypeOK, LookupFails, stores, Stages, Close, Blank
<1>7. ASSUME NEW t \in Attempts, NEW n \in 0..3, Confirm(t, n) PROVE TypeOK'
  <2>1. attempt[t].req \in Requests /\ attempt[t].key \in Keys
    BY <1>7 DEF Confirm, TypeOK
  <2>2. /\ pins' \subseteq Endpoints \X Keys
        /\ disk' \in [Hosts -> Entry \cup {Absent}]
        /\ served' \in [Hosts -> Entry \cup {Absent}]
        /\ planned' \in [Hosts -> Entry \cup {Absent}]
        /\ vault' \subseteq Hosts /\ torn' \subseteq Hosts
    BY <1>7, <2>1 DEF Confirm, Enrol, TypeOK, stores, Request, Entry
  <2>3. QED
    BY <1>7, <2>2 DEF Confirm, TypeOK, Stages, Close, Blank
<1>8. ASSUME NEW h \in Hosts, NEW n \in 0..3, Remove(h, n) PROVE TypeOK'
  BY <1>8 DEF TypeOK, Remove, Stages, PinsOf
<1>9. ASSUME NEW h \in Hosts, NEW e \in Environments, Classify(h, e) PROVE TypeOK'
  <2>1. disk[h] \in Entry
    BY <1>9 DEF Classify, TypeOK
  <2>2. [disk[h] EXCEPT !.env = e] \in Entry
    BY <2>1 DEF Entry
  <2>3. disk' \in [Hosts -> Entry \cup {Absent}] /\ disk'[h] \in Entry
    BY <1>9, <2>2 DEF Classify, TypeOK
  <2>4. QED
    BY <1>9, <2>3 DEF Classify, TypeOK
<1>10. ASSUME NEW t \in Attempts, Lapse(t) PROVE TypeOK'
  BY <1>10 DEF TypeOK, Lapse, stores, Stages
<1>11. ASSUME NEW ep \in Endpoints, NEW k \in Keys, NewKey(ep, k) PROVE TypeOK'
  BY <1>11 DEF TypeOK, NewKey, stores
<1>12. CASE Restart
  BY <1>12 DEF TypeOK, Restart, Stages, Blank
<1>13. CASE UNCHANGED vars
  BY <1>13 DEF TypeOK, vars
<1>14. QED
  BY <1>1, <1>2, <1>3, <1>4, <1>5, <1>6, <1>7, <1>8, <1>9, <1>10, <1>11, <1>12, <1>13
  DEF Next, Enrolment

\* Every reachable state is well typed and exactly the decision that awaits
\* its lookup holds the lock.
THEOREM Typing == Spec => []TypeOK
<1>1. Init => TypeOK
  BY AbsentIsNothing, NobodyIsNoTry, AttemptsBounded DEF Init, TypeOK, Blank, Stages
<1>2. QED
  BY <1>1, TypesKept, PTL DEF Spec

-----------------------------------------------------------------------------
(* Safety *)

\* Only the confirmation of an accepted key adds a known-hosts line.
LEMMA ApprovalKept ==
    ASSUME TypeOK, OnlyApprovedKeys, AcceptedIsApproved, [Next]_vars
    PROVE  OnlyApprovedKeys' /\ AcceptedIsApproved'
<1> USE DEF OnlyApprovedKeys, AcceptedIsApproved
<1>1. ASSUME NEW t \in Attempts, NEW r \in Requests, Discover(t, r)
      PROVE  OnlyApprovedKeys' /\ AcceptedIsApproved'
  BY <1>1 DEF TypeOK, Discover, stores
<1>2. ASSUME NEW t \in Attempts, DiscoverFails(t) \/ LookupFails(t)
      PROVE  OnlyApprovedKeys' /\ AcceptedIsApproved'
  <2>1. \A u \in Attempts : u # t => attempt'[u] = attempt[u]
    BY <1>2 DEF TypeOK, DiscoverFails, LookupFails, Close
  <2>2. attempt'[t].stage = "closed" /\ pins' = pins /\ approved' = approved
    BY <1>2 DEF TypeOK, DiscoverFails, LookupFails, stores, Close, Blank
  <2>3. QED
    BY <2>1, <2>2
<1>3. ASSUME NEW t \in Attempts, Offer(t)
      PROVE  OnlyApprovedKeys' /\ AcceptedIsApproved'
  <2>1. pins' = pins /\ approved' = approved
    BY <1>3 DEF Offer, stores
  <2>2. ASSUME NEW u \in Attempts, attempt'[u].stage \in {"queued", "checking"}
        PROVE  attempt'[u] = attempt[u]
    BY <1>3, <2>2 DEF TypeOK, Offer, Blank
  <2>3. QED
    BY <2>1, <2>2
<1>4. ASSUME NEW t \in Attempts, NEW trust \in BOOLEAN, Decide(t, trust)
      PROVE  OnlyApprovedKeys' /\ AcceptedIsApproved'
  BY <1>4 DEF TypeOK, Decide, stores, Close, Blank
<1>5. ASSUME NEW t \in Attempts, BeginLookup(t) \/ Lapse(t)
      PROVE  OnlyApprovedKeys' /\ AcceptedIsApproved'
  BY <1>5 DEF TypeOK, BeginLookup, Lapse, stores
<1>6. ASSUME NEW t \in Attempts, NEW n \in 0..3, Confirm(t, n)
      PROVE  OnlyApprovedKeys' /\ AcceptedIsApproved'
  <2>1. pins' \subseteq pins \cup {<<attempt[t].req.endpoint, attempt[t].key>>}
    BY <1>6 DEF Confirm, Enrol, stores
  <2>2. <<attempt[t].req.endpoint, attempt[t].key>> \in approved
    BY <1>6 DEF Confirm
  <2>3. AcceptedIsApproved'
    BY <1>6 DEF Confirm, TypeOK, Close, Blank
  <2>4. QED
    BY <1>6, <2>1, <2>2, <2>3 DEF Confirm
<1>7. ASSUME NEW h \in Hosts, NEW n \in 0..3, Remove(h, n)
      PROVE  OnlyApprovedKeys' /\ AcceptedIsApproved'
  BY <1>7 DEF Remove
<1>8. ASSUME NEW h \in Hosts, NEW e \in Environments, Classify(h, e)
      PROVE  OnlyApprovedKeys' /\ AcceptedIsApproved'
  BY <1>8 DEF Classify
<1>9. ASSUME NEW ep \in Endpoints, NEW k \in Keys, NewKey(ep, k)
      PROVE  OnlyApprovedKeys' /\ AcceptedIsApproved'
  BY <1>9 DEF NewKey, stores
<1>10. CASE Restart
  BY <1>10 DEF Restart, Blank
<1>11. CASE UNCHANGED vars
  BY <1>11 DEF vars
<1>12. QED
  BY <1>1, <1>2, <1>3, <1>4, <1>5, <1>6, <1>7, <1>8, <1>9, <1>10, <1>11
  DEF Next, Enrolment

\* SSH never trusts a key no operator accepted for that address, however keys
\* change between the lookups and wherever handlers stop.
THEOREM KeysAreApproved == Spec => []OnlyApprovedKeys
<1>1. Init => OnlyApprovedKeys /\ AcceptedIsApproved
  BY DEF Init, OnlyApprovedKeys, AcceptedIsApproved, Blank
<1>2. TypeOK /\ (OnlyApprovedKeys /\ AcceptedIsApproved) /\ [Next]_vars
        => (OnlyApprovedKeys /\ AcceptedIsApproved)'
  BY ApprovalKept
<1>3. QED
  BY <1>1, <1>2, Typing, PTL DEF Spec

-----------------------------------------------------------------------------
(* The stores *)

\* Every step that does not write the stores of a host.
LEMMA StoresUntouched ==
    ASSUME StoresAgree, UNCHANGED stores
    PROVE  StoresAgree'
BY DEF StoresAgree, stores

\* An enrolment either completes, or leaves the host to the torn ones, or has
\* written at most its pin.
LEMMA EnrolKeepsStores ==
    ASSUME TypeOK, StoresAgree, NEW r \in Requests, NEW key \in Keys,
           NEW n \in 0..3, n <= Writes(r), Enrol(r, key, n), disk[r.name] = Absent
    PROVE  StoresAgree'
<1>0. r.name \in Hosts /\ r.endpoint \in Endpoints /\ r.env \in Environments
      /\ [endpoint |-> r.endpoint, env |-> r.env] # Absent
  BY RequestsTyped, AbsentIsNothing DEF Request, Entry
<1>1. CASE n = Writes(r)
  BY <1>0, <1>1 DEF Enrol, Writes, StoresAgree, TypeOK
<1>2. CASE n # Writes(r) /\ n = 2
  BY <1>0, <1>2 DEF Enrol, Writes, StoresAgree, TypeOK
<1>3. CASE n # Writes(r) /\ n \in 0..1
  BY <1>0, <1>3 DEF Enrol, Writes, StoresAgree, TypeOK
<1>4. QED
  BY <1>1, <1>2, <1>3 DEF Writes

LEMMA StoresKept ==
    ASSUME TypeOK, StoresAgree, [Next]_vars
    PROVE  StoresAgree'
<1>1. ASSUME NEW t \in Attempts, Enrolment(t) \/ Lapse(t)
      PROVE  StoresAgree'
  <2>1. CASE \E n \in 0..3 : Confirm(t, n)
    <3>1. PICK n \in 0..3 : Confirm(t, n)
      BY <2>1
    <3>2. attempt[t].req \in Requests /\ attempt[t].key \in Keys
      BY <3>1 DEF Confirm, TypeOK
    <3>3. QED
      BY <3>1, <3>2, EnrolKeepsStores, StoresUntouched DEF Confirm
  <2>2. CASE ~ \E n \in 0..3 : Confirm(t, n)
    BY <1>1, <2>2, StoresUntouched
    DEF Enrolment, Discover, DiscoverFails, Offer, Decide, BeginLookup, LookupFails, Lapse
  <2>3. QED BY <2>1, <2>2
<1>2. ASSUME NEW h \in Hosts, NEW n \in 0..3, Remove(h, n)
      PROVE  StoresAgree'
  BY <1>2 DEF Remove, StoresAgree, TypeOK
<1>3. ASSUME NEW h \in Hosts, NEW e \in Environments, Classify(h, e)
      PROVE  StoresAgree'
  <2>1. disk[h] \in Entry /\ [disk[h] EXCEPT !.env = e] \in Entry
    BY <1>3 DEF Classify, TypeOK, Entry
  <2>2. disk'[h] # Absent /\ served'[h] = disk'[h]
    BY <1>3, <2>1, AbsentIsNothing DEF Classify, TypeOK
  <2>3. QED
    BY <1>3, <2>2 DEF Classify, StoresAgree, TypeOK
<1>4. ASSUME NEW ep \in Endpoints, NEW k \in Keys, NewKey(ep, k)
      PROVE  StoresAgree'
  BY <1>4, StoresUntouched DEF NewKey
<1>5. CASE Restart
  BY <1>5 DEF Restart, StoresAgree
<1>6. CASE UNCHANGED vars
  BY <1>6, StoresUntouched DEF vars, stores
<1>7. QED
  BY <1>1, <1>2, <1>3, <1>4, <1>5, <1>6 DEF Next

\* File, running service and vault agree on every host whose last handler did
\* not stop halfway.
THEOREM StoresStayTogether == Spec => []StoresAgree
<1>1. Init => StoresAgree
  BY DEF Init, StoresAgree
<1>2. TypeOK /\ StoresAgree /\ [Next]_vars => StoresAgree'
  BY StoresKept
<1>3. QED
  BY <1>1, <1>2, Typing, PTL DEF Spec

-----------------------------------------------------------------------------
(* Enrolments *)

\* No handler replaces the machine behind an enrolled name.
THEOREM EnrolmentsStand == Spec => EnrolmentStands
<1>1. TypeOK /\ [Next]_vars =>
        [\A n \in Hosts :
            disk[n] # Absent /\ disk'[n] # Absent => disk'[n].endpoint = disk[n].endpoint]_vars
  <2> SUFFICES ASSUME TypeOK, [Next]_vars, NEW n \in Hosts,
                      disk[n] # Absent, disk'[n] # Absent
               PROVE  disk'[n].endpoint = disk[n].endpoint
    OBVIOUS
  <2>1. ASSUME NEW t \in Attempts, NEW k \in 0..3, Confirm(t, k)
        PROVE  disk'[n].endpoint = disk[n].endpoint
    <3>1. attempt[t].req \in Requests
      BY <2>1 DEF Confirm, TypeOK
    <3>2. attempt[t].req.name \in Hosts
      BY <3>1, RequestsTyped DEF Request
    <3>3. QED
      BY <2>1, <3>2 DEF Confirm, Enrol, TypeOK, stores
  <2>2. ASSUME NEW h \in Hosts, NEW e \in Environments, Classify(h, e)
        PROVE  disk'[n].endpoint = disk[n].endpoint
    <3>1. disk[h] \in Entry /\ [disk[h] EXCEPT !.env = e].endpoint = disk[h].endpoint
      BY <2>2 DEF Classify, TypeOK, Entry
    <3>2. QED
      BY <2>2, <3>1 DEF Classify, TypeOK
  <2>3. ASSUME NEW h \in Hosts, NEW k \in 0..3, Remove(h, k)
        PROVE  disk'[n].endpoint = disk[n].endpoint
    BY <2>3 DEF Remove, TypeOK
  <2>4. CASE UNCHANGED disk
    BY <2>4
  <2>5. QED
    BY <2>1, <2>2, <2>3, <2>4
    DEF Next, Enrolment, Discover, DiscoverFails, Offer, Decide, BeginLookup, LookupFails,
        Lapse, NewKey, Restart, stores, vars
<1>2. QED
  BY <1>1, Typing, PTL DEF Spec, EnrolmentStands

-----------------------------------------------------------------------------
(* Pins *)

\* Under a name stands what was asked for under it.
LEMMA ProvenanceKept ==
    ASSUME TypeOK, Provenance, [Next]_vars
    PROVE  Provenance'
<1>1. ASSUME NEW t \in Attempts, NEW k \in 0..3, Confirm(t, k)
      PROVE  Provenance'
  <2>1. attempt[t].req \in Requests
    BY <1>1 DEF Confirm, TypeOK
  <2>2. attempt[t].req.name \in Hosts
    BY <2>1, RequestsTyped DEF Request
  <2>3. \A n \in Hosts :
          \/ disk'[n] = disk[n]
          \/ n = attempt[t].req.name /\ disk'[n].endpoint = attempt[t].req.endpoint
    BY <1>1, <2>2 DEF Confirm, Enrol, TypeOK, stores
  <2>4. QED
    BY <2>1, <2>3 DEF Provenance
<1>2. ASSUME NEW h \in Hosts, NEW e \in Environments, Classify(h, e)
      PROVE  Provenance'
  <2>1. disk[h] \in Entry /\ [disk[h] EXCEPT !.env = e].endpoint = disk[h].endpoint
    BY <1>2 DEF Classify, TypeOK, Entry
  <2>2. \A n \in Hosts : n # h => disk'[n] = disk[n]
    BY <1>2 DEF Classify, TypeOK
  <2>3. disk[h] # Absent /\ disk'[h].endpoint = disk[h].endpoint
    BY <1>2, <2>1 DEF Classify, TypeOK
  <2>4. QED
    BY <2>2, <2>3 DEF Provenance
<1>3. ASSUME NEW h \in Hosts, NEW k \in 0..3, Remove(h, k)
      PROVE  Provenance'
  BY <1>3 DEF Remove, TypeOK, Provenance
<1>4. CASE UNCHANGED disk
  BY <1>4 DEF Provenance
<1>5. QED
  BY <1>1, <1>2, <1>3, <1>4
  DEF Next, Enrolment, Discover, DiscoverFails, Offer, Decide, BeginLookup, LookupFails,
      Lapse, NewKey, Restart, stores, vars

\* When every address belongs to one name, no step takes the pin of a host
\* that stays configured.
LEMMA PinsKept ==
    ASSUME UniqueEndpoints, TypeOK, Provenance, ConfiguredIsPinned, [Next]_vars
    PROVE  ConfiguredIsPinned'
<1>1. ASSUME NEW t \in Attempts, NEW k \in 0..3, Confirm(t, k)
      PROVE  ConfiguredIsPinned'
  <2>1. attempt[t].req \in Requests
    BY <1>1 DEF Confirm, TypeOK
  <2>2. attempt[t].req.name \in Hosts
    BY <2>1, RequestsTyped DEF Request
  <2>3. \A n \in Hosts :
          \/ disk'[n] = disk[n]
          \/ /\ disk'[n].endpoint = attempt[t].req.endpoint
             /\ <<attempt[t].req.endpoint, attempt[t].key>> \in pins'
    BY <1>1, <2>2 DEF Confirm, Enrol, TypeOK, stores
  <2>4. pins \subseteq pins'
    BY <1>1 DEF Confirm, Enrol, stores
  <2>5. QED
    BY <2>3, <2>4 DEF ConfiguredIsPinned, PinsOf
<1>2. ASSUME NEW h \in Hosts, NEW e \in Environments, Classify(h, e)
      PROVE  ConfiguredIsPinned'
  <2>1. disk[h] \in Entry /\ [disk[h] EXCEPT !.env = e].endpoint = disk[h].endpoint
    BY <1>2 DEF Classify, TypeOK, Entry
  <2>2. \A n \in Hosts : n # h => disk'[n] = disk[n]
    BY <1>2 DEF Classify, TypeOK
  <2>3. disk[h] # Absent /\ disk'[h].endpoint = disk[h].endpoint /\ pins' = pins
    BY <1>2, <2>1 DEF Classify, TypeOK
  <2>4. QED
    BY <2>2, <2>3 DEF ConfiguredIsPinned, PinsOf
<1>3. ASSUME NEW h \in Hosts, NEW k \in 0..3, Remove(h, k)
      PROVE  ConfiguredIsPinned'
  <2> SUFFICES ASSUME NEW m \in Hosts, disk'[m] # Absent
               PROVE  \E p \in pins' : p[1] = disk'[m].endpoint
    BY DEF ConfiguredIsPinned, PinsOf
  <2>1. disk[h] # Absent /\ disk'[m] = disk[m] /\ disk[m] # Absent
    BY <1>3 DEF Remove, TypeOK
  <2>2. PICK p \in pins : p[1] = disk[m].endpoint
    BY <2>1 DEF ConfiguredIsPinned, PinsOf
  <2>3. CASE k < 2
    BY <1>3, <2>1, <2>2, <2>3 DEF Remove
  <2>4. CASE k >= 2
    <3>1. m # h
      BY <1>3, <2>4 DEF Remove, TypeOK
    <3>2. disk[m].endpoint # disk[h].endpoint
      BY <2>1, <3>1 DEF Provenance, UniqueEndpoints
    <3>3. p \in pins'
      BY <1>3, <2>2, <2>4, <3>2 DEF Remove, PinsOf
    <3>4. QED BY <2>1, <2>2, <3>3
  <2>5. QED BY <2>3, <2>4
<1>4. CASE UNCHANGED <<disk, pins>>
  BY <1>4 DEF ConfiguredIsPinned, PinsOf
<1>5. QED
  BY <1>1, <1>2, <1>3, <1>4
  DEF Next, Enrolment, Discover, DiscoverFails, Offer, Decide, BeginLookup, LookupFails,
      Lapse, NewKey, Restart, stores, vars

\* If no two names share an address, a configured host always has a pinned
\* key, at every point where a handler may stop.
THEOREM PinsStay == UniqueEndpoints => (Spec => []ConfiguredIsPinned)
<1> SUFFICES ASSUME UniqueEndpoints PROVE Spec => []ConfiguredIsPinned
  OBVIOUS
<1>1. Init => Provenance /\ ConfiguredIsPinned
  BY DEF Init, Provenance, ConfiguredIsPinned
<1>2. TypeOK /\ (Provenance /\ ConfiguredIsPinned) /\ [Next]_vars
        => (Provenance /\ ConfiguredIsPinned)'
  BY ProvenanceKept, PinsKept
<1>3. QED
  BY <1>1, <1>2, Typing, PTL DEF Spec

\* Types, approved keys and pinned keys together.
THEOREM PinsSound == UniqueEndpoints => (Spec => []PinsHold)
<1> SUFFICES ASSUME UniqueEndpoints PROVE Spec => []PinsHold
  OBVIOUS
<1>1. TypeOK /\ OnlyApprovedKeys /\ ConfiguredIsPinned => PinsHold
  BY DEF PinsHold
<1>2. Spec => []ConfiguredIsPinned
  BY PinsStay
<1>3. QED BY <1>1, <1>2, Typing, KeysAreApproved, PTL
=============================================================================
