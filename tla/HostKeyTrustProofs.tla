-------------------------- MODULE HostKeyTrustProofs --------------------------
(***************************************************************************)
(* What holds of HostKeyTrust for any number of handshakes, hosts and      *)
(* keys: no key is believed without the user's word, and no restart        *)
(* changes what is believed unless a save failed.                          *)
(***************************************************************************)
EXTENDS HostKeyTrust, TLAPS

(* The four invariants support one another: a key is stored because the handshake
   that stores it holds a consent, and a handshake holds one, where nobody was
   asked, because the stored key it matched was consented to. *)
TrustInv == TypeOK /\ OnlyConsented /\ AcceptedByConsent /\ StoreIsCurrent

(* Whatever the file held when the program started counts as consented. *)
LEMMA TrustInit == Init => TrustInv
<1> SUFFICES ASSUME Init PROVE TrustInv
  OBVIOUS
<1> USE DEF Init
<1>1. entries \in Stored /\ disk \in Stored
  BY DEF Loaded, Empty, Stored
<1>2. Pairs(entries) \subseteq Pairs(disk)
  BY NoKeyAssumption DEF Pairs, Loaded, Empty
<1>3. consents \subseteq Hosts \X Keys
  BY DEF Pairs
<1>4. TypeOK
  BY <1>1, <1>3 DEF TypeOK
<1>5. OnlyConsented
  BY <1>2 DEF OnlyConsented
<1>6. AcceptedByConsent
  BY DEF AcceptedByConsent, Saving
<1>7. StoreIsCurrent
  BY DEF StoreIsCurrent
<1> QED BY <1>4, <1>5, <1>6, <1>7 DEF TrustInv

(* What a restart loads was consented to: the whole file, or nothing of it. *)
LEMMA LoadedIsConsented ==
    ASSUME TrustInv
    PROVE  Loaded \in Stored /\ Pairs(Loaded) \subseteq consents
<1>1. CASE torn
  BY <1>1, NoKeyAssumption DEF Loaded, Empty, Stored, Pairs
<1>2. CASE ~torn
  BY <1>2 DEF Loaded, TrustInv, TypeOK, OnlyConsented
<1> QED BY <1>1, <1>2

(* A handshake that moves on, storing nothing and holding a consent where it
   needs one, preserves the invariant. *)
LEMMA MoveOn ==
    ASSUME TrustInv, NEW s \in Sessions,
           NEW to \in {"idle", "asking", "trusting", "accepted", "refused"},
           pc' = [pc EXCEPT ![s] = to], pc[s] \notin Saving,
           UNCHANGED storeVars, consents \subseteq consents', consents' \subseteq Hosts \X Keys,
           host' \in [Sessions -> Hosts], key' \in [Sessions -> Keys],
           shown' \in [Sessions -> Keys \cup {NoKey}],
           \A r \in Sessions \ {s} : host'[r] = host[r] /\ key'[r] = key[r],
           to \in {"trusting", "accepted"} => <<host'[s], key'[s]>> \in consents'
    PROVE  TrustInv'
<1>1. TypeOK'
  BY DEF TrustInv, TypeOK, storeVars
<1>2. OnlyConsented'
  BY DEF TrustInv, OnlyConsented, storeVars, Pairs
<1>3. AcceptedByConsent'
  <2> SUFFICES ASSUME NEW r \in Sessions, pc'[r] \in {"trusting", "accepted"} \cup Saving
               PROVE  <<host'[r], key'[r]>> \in consents'
    BY DEF AcceptedByConsent, Saving
  <2>1. CASE r = s
    BY <2>1 DEF TrustInv, TypeOK, Saving
  <2>2. CASE r # s
    BY <2>2 DEF TrustInv, TypeOK, AcceptedByConsent
  <2> QED BY <2>1, <2>2
<1>4. StoreIsCurrent'
  <2>1. StoreUnlocked' => StoreUnlocked
    BY DEF StoreUnlocked, TrustInv, TypeOK, Saving
  <2> QED BY <2>1 DEF TrustInv, StoreIsCurrent, storeVars, Loaded
<1> QED BY <1>1, <1>2, <1>3, <1>4 DEF TrustInv

(* A step of a save keeps who holds which consent; the store is the rest. *)
LEMMA SaveStep ==
    ASSUME TrustInv, NEW s \in Sessions, NEW to \in {"saving", "writing", "accepted"},
           pc[s] \in {"trusting"} \cup Saving, pc' = [pc EXCEPT ![s] = to],
           UNCHANGED <<taskVars, consents>>,
           entries' \in Stored, disk' \in Stored, torn' \in BOOLEAN, unsaved' \in BOOLEAN
    PROVE  TypeOK' /\ AcceptedByConsent'
<1>1. TypeOK'
  BY DEF TrustInv, TypeOK, taskVars
<1>2. AcceptedByConsent'
  <2> SUFFICES ASSUME NEW r \in Sessions, pc'[r] \in {"trusting", "accepted"} \cup Saving
               PROVE  <<host[r], key[r]>> \in consents
    BY DEF AcceptedByConsent, Saving, taskVars
  <2>1. pc[r] \in {"trusting", "accepted"} \cup Saving
    BY DEF TrustInv, TypeOK, Saving
  <2> QED BY <2>1 DEF TrustInv, AcceptedByConsent
<1> QED BY <1>1, <1>2

(* Every step of a handshake, and a restart, preserves the invariant. *)
LEMMA TrustStep ==
    ASSUME TrustInv, [Next]_vars
    PROVE  TrustInv'
<1>0. TypeOK /\ OnlyConsented /\ AcceptedByConsent /\ StoreIsCurrent
  BY DEF TrustInv
<1> USE DEF Goto
<1>1. ASSUME NEW s \in Sessions, Unencodable(s) \/ Refuse(s) \/ End(s) PROVE TrustInv'
  <2>1. PICK to \in {"idle", "refused"} : pc' = [pc EXCEPT ![s] = to] /\ pc[s] \notin Saving
    BY <1>1 DEF Unencodable, Refuse, End, Saving
  <2>2. UNCHANGED <<storeVars, taskVars, consents>>
    BY <1>1 DEF Unencodable, Refuse, End
  <2> QED BY <1>0, <2>1, <2>2, MoveOn DEF TypeOK, taskVars
<1>2. ASSUME NEW s \in Sessions, NEW h \in Hosts, NEW k \in Keys, Check(s, h, k)
      PROVE  TrustInv'
  <2> DEFINE to == IF entries[h] = k THEN "accepted" ELSE "asking"
  <2>1. /\ pc' = [pc EXCEPT ![s] = to] /\ pc[s] \notin Saving
        /\ UNCHANGED <<storeVars, consents>>
        /\ host' = [host EXCEPT ![s] = h] /\ key' = [key EXCEPT ![s] = k]
    BY <1>2 DEF Check, Saving
  <2>2. shown' \in [Sessions -> Keys \cup {NoKey}]
    <3>1. (IF entries[h] = k THEN NoKey ELSE entries[h]) \in Keys \cup {NoKey}
      BY <1>0 DEF TypeOK, Stored
    <3> QED BY <1>0, <1>2, <3>1 DEF Check, TypeOK
  <2>3. /\ host' \in [Sessions -> Hosts] /\ key' \in [Sessions -> Keys]
        /\ host'[s] = h /\ key'[s] = k
        /\ \A r \in Sessions \ {s} : host'[r] = host[r] /\ key'[r] = key[r]
    BY <1>0, <2>1 DEF TypeOK
  <2>4. ASSUME to \in {"trusting", "accepted"} PROVE <<h, k>> \in consents
    <3>1. entries[h] = k
      BY <2>4
    <3>2. <<h, k>> \in Pairs(entries)
      BY <3>1 DEF Pairs
    <3> QED BY <1>0, <3>2 DEF OnlyConsented
  <2>5. to \in {"idle", "asking", "trusting", "accepted", "refused"}
    OBVIOUS
  <2> HIDE DEF to
  <2>6. consents' = consents /\ consents' \subseteq Hosts \X Keys /\ UNCHANGED storeVars
    BY <1>0, <2>1 DEF TypeOK
  <2>7. to \in {"trusting", "accepted"} => <<host'[s], key'[s]>> \in consents'
    BY <2>3, <2>4, <2>6
  <2> QED BY <2>1, <2>2, <2>3, <2>5, <2>6, <2>7, MoveOn
<1>3. ASSUME NEW s \in Sessions, Accept(s) PROVE TrustInv'
  <2>1. host[s] \in Hosts /\ key[s] \in Keys
    BY <1>0 DEF TypeOK
  <2>2. /\ pc' = [pc EXCEPT ![s] = "trusting"] /\ pc[s] \notin Saving
        /\ UNCHANGED <<storeVars, taskVars>>
        /\ consents' = consents \cup {<<host[s], key[s]>>}
    BY <1>3 DEF Accept, Saving
  <2>3. consents' \subseteq Hosts \X Keys
    BY <1>0, <2>1, <2>2 DEF TypeOK
  <2> QED BY <1>0, <2>2, <2>3, MoveOn DEF TypeOK, taskVars
<1>4. ASSUME NEW s \in Sessions, Trust(s) PROVE TrustInv'
  <2>1. <<host[s], key[s]>> \in consents /\ host[s] \in Hosts /\ key[s] \in Keys
    BY <1>0, <1>4 DEF Trust, AcceptedByConsent, TypeOK
  <2>2. entries' \in Stored /\ disk' \in Stored /\ torn' \in BOOLEAN /\ unsaved' \in BOOLEAN
    BY <1>0, <1>4, <2>1 DEF Trust, TypeOK, Stored
  <2>3. TypeOK' /\ AcceptedByConsent'
    BY <1>4, <2>2, SaveStep DEF Trust
  <2>4. OnlyConsented'
    <3>1. Pairs(entries') \subseteq Pairs(entries) \cup {<<host[s], key[s]>>}
      BY <1>0, <1>4 DEF Trust, Pairs, TypeOK, Stored
    <3>2. disk' = disk /\ consents' = consents
      BY <1>4 DEF Trust
    <3> QED BY <1>0, <2>1, <3>1, <3>2 DEF OnlyConsented, Pairs
  <2>5. StoreIsCurrent'
    BY <1>0, <1>4 DEF Trust, StoreIsCurrent, StoreUnlocked, Saving, TypeOK
  <2> QED BY <2>3, <2>4, <2>5 DEF TrustInv
<1>5. ASSUME NEW s \in Sessions, Truncate(s) PROVE TrustInv'
  <2>1. TypeOK' /\ AcceptedByConsent'
    BY <1>0, <1>5, SaveStep DEF Truncate, TypeOK, Saving
  <2>2. OnlyConsented'
    BY <1>0, <1>5 DEF Truncate, OnlyConsented, Pairs
  <2>3. StoreIsCurrent'
    BY <1>0, <1>5 DEF Truncate, StoreIsCurrent, StoreUnlocked, Saving, TypeOK
  <2> QED BY <2>1, <2>2, <2>3 DEF TrustInv
<1>6. ASSUME NEW s \in Sessions, Write(s) PROVE TrustInv'
  <2>1. TypeOK' /\ AcceptedByConsent'
    BY <1>0, <1>6, SaveStep DEF Write, TypeOK, Saving
  <2>2. OnlyConsented'
    BY <1>0, <1>6 DEF Write, OnlyConsented, Pairs
  <2>3. StoreIsCurrent'
    BY <1>6 DEF Write, StoreIsCurrent, Loaded
  <2> QED BY <2>1, <2>2, <2>3 DEF TrustInv
<1>7. ASSUME NEW s \in Sessions, SaveFailed(s) PROVE TrustInv'
  <2>1. TypeOK' /\ AcceptedByConsent'
    BY <1>0, <1>7, SaveStep DEF SaveFailed, TypeOK, Saving
  <2>2. OnlyConsented'
    BY <1>0, <1>7 DEF SaveFailed, OnlyConsented, Pairs
  <2>3. StoreIsCurrent'
    BY <1>7 DEF SaveFailed, StoreIsCurrent
  <2> QED BY <2>1, <2>2, <2>3 DEF TrustInv
<1>8. CASE Restart
  <2>1. Loaded \in Stored /\ Pairs(Loaded) \subseteq consents
    BY LoadedIsConsented
  <2>2. /\ entries' = Loaded /\ Loaded' = Loaded
        /\ pc' = [s \in Sessions |-> "idle"] /\ unsaved' = FALSE
        /\ UNCHANGED <<disk, torn, taskVars, consents>>
    BY <1>8 DEF Restart, Loaded
  <2>3. TypeOK'
    BY <1>0, <2>1, <2>2 DEF TypeOK, taskVars
  <2>4. OnlyConsented'
    BY <1>0, <2>1, <2>2 DEF OnlyConsented, Pairs
  <2>5. AcceptedByConsent' /\ StoreIsCurrent'
    BY <2>2 DEF AcceptedByConsent, StoreIsCurrent, Saving
  <2> QED BY <2>3, <2>4, <2>5 DEF TrustInv
<1>9. CASE UNCHANGED vars
  BY <1>0, <1>9 DEF vars, storeVars, taskVars, TrustInv, TypeOK, OnlyConsented, AcceptedByConsent,
                    StoreIsCurrent, StoreUnlocked, Pairs, Loaded
<1> QED BY <1>1, <1>2, <1>3, <1>4, <1>5, <1>6, <1>7, <1>8, <1>9 DEF Next, TaskStep

(* The invariant holds of every state of every run. *)
THEOREM TrustHolds == Spec => []TrustInv
  BY TrustInit, TrustStep, PTL DEF Spec

(* Places, keys, store and file keep their types. *)
THEOREM TrustTypes == Spec => []TypeOK
<1>1. TrustInv => TypeOK
  BY DEF TrustInv
<1> QED BY <1>1, TrustHolds, PTL

(* No key is in the store or its file that the user did not accept for its host. *)
THEOREM StoredByConsent == Spec => []OnlyConsented
<1>1. TrustInv => OnlyConsented
  BY DEF TrustInv
<1> QED BY <1>1, TrustHolds, PTL

(* No handshake goes on with a key the user did not accept for its host. *)
THEOREM HandshakesAreConsented == Spec => []AcceptedByConsent
<1>1. TrustInv => AcceptedByConsent
  BY DEF TrustInv
<1> QED BY <1>1, TrustHolds, PTL

(* Unless the latest save failed, a restart changes nothing that is believed. *)
THEOREM RestartIsNeutral == Spec => []StoreIsCurrent
<1>1. TrustInv => StoreIsCurrent
  BY DEF TrustInv
<1> QED BY <1>1, TrustHolds, PTL
==============================================================================
