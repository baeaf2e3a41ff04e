--------------------------- MODULE PaymentsProofs --------------------------
(***************************************************************************)
(* Proofs about Payments, for any policy, any set of offers, calls, keys   *)
(* and wallets, and any number of lost and repeated messages, restarts and *)
(* changes of keys: no money leaves without authority.                     *)
(***************************************************************************)
EXTENDS Payments, TLAPS

Labels == {"idle", "denied", "approval", "allowed", "signing", "settling", "paid", "done", "failed"}
Wallets == Names \union {""}
Sealed == [key : Keys, seal : Masters]
Signatures == [key : Keys, payload : Calls \X (Offers \union {None})]

TypeOK ==
  /\ defaultAddr \in Wallets /\ approver \in BOOLEAN
  /\ pc \in [Calls -> Labels] /\ offer \in [Calls -> Offers \union {None}]
  /\ approval \in [Calls -> Decisions \union {None}]
  /\ pending \in SUBSET Calls
  /\ requests \in SUBSET [call : Calls, wallet : Wallets, payload : Calls \X (Offers \union {None})]
  /\ responses \in SUBSET [call : Calls, sig : Signatures \union {Refused}]
  /\ sig \in [Calls -> Signatures \union {Refused, None}]
  /\ secrets \in [Names -> Sealed \union {None}] /\ loaded \in [Names -> Sealed \union {None}]
  /\ master \in Masters
  /\ stored \in SUBSET (Names \X Keys) /\ settled \in SUBSET Calls /\ said \in SUBSET Calls

\* Every key the daemon can sign with was stored under its name.
KeysStored ==
  \A n \in Names : /\ secrets[n] # None => <<n, secrets[n].key>> \in stored
                   /\ loaded[n] # None => <<n, loaded[n].key>> \in stored

\* What the policy and a human admitted, as far as a call has come.
Admitted ==
  \A c \in Calls :
    /\ pc[c] \notin {"idle", "denied"} => StaticRules(offer[c])
    /\ pc[c] = "approval" => approver
    /\ approval[c] = "APPROVED" => c \in said
    /\ pc[c] \in {"allowed", "signing", "settling", "paid", "done"} \/ c \in settled =>
         (RequiresHumanApproval(offer[c]) => approver /\ c \in said)

\* A signature for the call c over its own offer, with a key of the wallet.
SignedFor(c, s) == <<defaultAddr, s.key>> \in stored /\ s.payload = <<c, offer[c]>>

\* Requests and responses are for the offer their call met, which no longer
\* changes.
Addressed ==
  /\ \A m \in requests : /\ m.wallet = defaultAddr /\ m.payload = <<m.call, offer[m.call]>>
                         /\ pc[m.call] # "idle"
  /\ \A m \in responses : /\ m.sig # Refused => SignedFor(m.call, m.sig)
                          /\ pc[m.call] # "idle"

\* A signature is taken once, while the call waits for it.
SignedOnce ==
  \A c \in Calls :
    /\ c \in pending => pc[c] = "signing" /\ sig[c] = None
    /\ pc[c] \in {"idle", "approval", "allowed", "denied"} => sig[c] = None
    /\ sig[c] \notin {None, Refused} => SignedFor(c, sig[c])
    /\ pc[c] \in {"settling", "paid", "done"} \/ c \in settled => sig[c] \notin {None, Refused}
    /\ c \in settled => pc[c] \in {"paid", "done", "failed"}

IInv == TypeOK /\ KeysStored /\ Admitted /\ Addressed /\ SignedOnce

----------------------------------------------------------------------------
(* Groups of steps *)

KeyChange ==
  \/ \E n \in Names : DeleteKey(n) \/ DeleteWalletKey(n) \/ (\E k \in Keys : CreateKey(n, k) \/ RotateFile(n, k))
  \/ \E m \in Masters : WalletRestart(m) \/ (\E n \in Names, k \in Keys : CreateWalletKey(n, k, m))

Message(m) ==
  \/ m \in requests /\ (HandleSignRequest(m) \/ SignError(m) \/ DuplicateRequest(m) \/ LoseRequest(m))
  \/ m \in responses /\ LoseResponse(m)

LEMMA NextCases ==
  ASSUME [Next]_vars
  PROVE  \/ \E c \in Calls :
              \/ \E o \in Offers : Intent(c, o)
              \/ \E status \in {"APPROVED", "REJECTED"} : Decide(c, status)
              \/ RequestApproval(c) \/ PollApproval(c) \/ ApprovalExpires(c)
              \/ Sign(c) \/ Signed(c) \/ SignGivesUp(c) \/ Authorize(c) \/ RecordSpend(c)
         \/ \E m : Message(m)
         \/ \E m \in responses : HandleResponse(m)
         \/ KeyChange
         \/ Restart
         \/ UNCHANGED vars
<1>1. CASE Messages  BY <1>1 DEF Messages, Message
<1>2. CASE Next /\ ~Messages  BY <1>2 DEF Next, Client, KeyChange
<1> QED  BY <1>1, <1>2 DEF Next

\* The daemon's keys: whatever changes them, every key that can be read was
\* stored under its name.
LEMMA KeyEffect ==
  ASSUME IInv, KeyChange
  PROVE  /\ secrets' \in [Names -> Sealed \union {None}] /\ loaded' \in [Names -> Sealed \union {None}]
         /\ master' \in Masters /\ stored' \in SUBSET (Names \X Keys) /\ stored \subseteq stored'
         /\ KeysStored'
         /\ UNCHANGED <<wiring, pc, offer, ledger, approval, mqttVars, settled, said>>
<1> DEFINE Fine == /\ secrets' \in [Names -> Sealed \union {None}]
                   /\ loaded' \in [Names -> Sealed \union {None}]
                   /\ master' \in Masters /\ stored' \in SUBSET (Names \X Keys)
                   /\ stored \subseteq stored' /\ KeysStored'
<1>1. ASSUME NEW n \in Names, NEW k \in Keys, NEW m \in Masters, Store(n, k, m), UNCHANGED <<master, loaded>>
      PROVE  Fine
  <2>1. Seal(k, m) \in Sealed /\ Seal(k, m).key = k  BY DEF Seal, Sealed
  <2>2. secrets' = [secrets EXCEPT ![n] = Seal(k, m)] /\ stored' = stored \union {<<n, k>>}
    BY <1>1 DEF Store
  <2>3. secrets' \in [Names -> Sealed \union {None}]  BY <2>1, <2>2 DEF IInv, TypeOK
  <2>4. KeysStored'
    <3>1. ASSUME NEW x \in Names PROVE secrets'[x] # None => <<x, secrets'[x].key>> \in stored'
      <4>1. CASE x = n  BY <2>1, <2>2, <4>1 DEF IInv, TypeOK
      <4>2. CASE x # n  BY <2>2, <4>2 DEF IInv, TypeOK, KeysStored
      <4> QED  BY <4>1, <4>2
    <3>2. ASSUME NEW x \in Names PROVE loaded'[x] # None => <<x, loaded'[x].key>> \in stored'
      BY <1>1, <2>2 DEF IInv, KeysStored
    <3> QED  BY <3>1, <3>2 DEF KeysStored
  <2> QED  BY <1>1, <2>2, <2>3, <2>4 DEF IInv, TypeOK
<1>2. ASSUME NEW n \in Names, secrets' = [secrets EXCEPT ![n] = None], UNCHANGED <<stored, master, loaded>>
      PROVE  Fine
  <2>1. secrets' \in [Names -> Sealed \union {None}]  BY <1>2 DEF IInv, TypeOK
  <2>2. KeysStored'  BY <1>2 DEF IInv, TypeOK, KeysStored
  <2> QED  BY <1>2, <2>1, <2>2 DEF IInv, TypeOK
<1>3. ASSUME NEW m \in Masters, WalletRestart(m)  PROVE Fine
  <2>1. (loaded' = secrets \/ loaded' = loaded) /\ (master' = m \/ master' = master)
        /\ UNCHANGED <<secrets, stored>>
    BY <1>3 DEF WalletRestart, LoadWalletKeys, ResolveMasterKey
  <2>2. KeysStored'  BY <2>1 DEF IInv, KeysStored
  <2> QED  BY <2>1, <2>2 DEF IInv, TypeOK
<1>4. master \in Masters  BY DEF IInv, TypeOK
<1>5. ASSUME NEW n \in Names, DeleteKey(n) \/ DeleteWalletKey(n)  PROVE Fine
  BY <1>2, <1>5 DEF DeleteKey, DeleteWalletKey, DeleteSecret, DeleteSecretDefault, DeleteSecretVault
<1>6. ASSUME NEW n \in Names, NEW k \in Keys, CreateKey(n, k) \/ RotateFile(n, k)  PROVE Fine
  <2>1. Store(n, k, master) /\ UNCHANGED <<master, loaded>>
    BY <1>6 DEF CreateKey, RotateFile, PutSecret, PutSecretDefault, PutSecretVault
  <2> QED  BY <1>1, <1>4, <2>1
<1>7. ASSUME NEW n \in Names, NEW k \in Keys, NEW m \in Masters, CreateWalletKey(n, k, m)  PROVE Fine
  <2>1. Store(n, k, m) /\ UNCHANGED <<master, loaded>>
    BY <1>7 DEF CreateWalletKey, PutSecretDefault
  <2> QED  BY <1>1, <2>1
<1>8. Fine  BY <1>3, <1>5, <1>6, <1>7 DEF KeyChange
<1>9. UNCHANGED <<wiring, pc, offer, ledger, approval, mqttVars, settled, said>>
  BY DEF KeyChange, DeleteKey, DeleteWalletKey, CreateKey, RotateFile, WalletRestart, CreateWalletKey,
         KeyUnchanged
<1> QED  BY <1>8, <1>9

\* GetSecret of any provider returns a key that was stored under the name.
LEMMA SecretWasStored ==
  ASSUME IInv, NEW n, GetSecret(n) # None
  PROVE  n \in Names /\ GetSecret(n) \in Keys /\ <<n, GetSecret(n)>> \in stored
<1>1. n \in Names  BY DEF GetSecret
<1>2. \/ secrets[n] # None /\ GetSecret(n) = secrets[n].key
      \/ loaded[n] # None /\ GetSecret(n) = loaded[n].key
  BY <1>1 DEF GetSecret, GetSecretCSI, GetSecretVault, GetSecretDefault
<1>3. secrets[n] \in Sealed \union {None} /\ loaded[n] \in Sealed \union {None}
  BY <1>1 DEF IInv, TypeOK
<1> QED  BY <1>1, <1>2, <1>3 DEF IInv, KeysStored, Sealed

\* The wallet's answer carries a signature over what was asked for, or none.
LEMMA ResponseAddressed ==
  ASSUME IInv, NEW m \in requests
  PROVE  /\ SignResponse(m) \in [call : Calls, sig : Signatures \union {Refused}]
         /\ SignResponse(m).call = m.call
         /\ SignResponse(m).sig # Refused => SignedFor(m.call, SignResponse(m).sig)
<1>1. m.call \in Calls /\ m.payload \in Calls \X (Offers \union {None})
  BY DEF IInv, TypeOK
<1>2. m.wallet = defaultAddr /\ m.payload = <<m.call, offer[m.call]>>  BY DEF IInv, Addressed
<1>3. CASE GetSecret(m.wallet) = None
  BY <1>1, <1>3 DEF SignResponse
<1>4. CASE GetSecret(m.wallet) # None
  <2> DEFINE s == [key |-> GetSecret(m.wallet), payload |-> m.payload]
  <2>1. SignResponse(m) = [call |-> m.call, sig |-> s]  BY <1>4 DEF SignResponse
  <2>2. GetSecret(m.wallet) \in Keys /\ <<m.wallet, GetSecret(m.wallet)>> \in stored
    BY <1>4, SecretWasStored
  <2>3. s \in Signatures  BY <1>1, <2>2 DEF Signatures
  <2>4. SignedFor(m.call, s)  BY <1>2, <2>2 DEF SignedFor
  <2> HIDE DEF s
  <2> QED  BY <1>1, <2>1, <2>3, <2>4
<1> QED  BY <1>3, <1>4

LEMMA MessageEffect ==
  ASSUME IInv, NEW m, Message(m)
  PROVE  /\ requests' \subseteq requests
         /\ \A r \in responses' \ responses :
              /\ r \in [call : Calls, sig : Signatures \union {Refused}]
              /\ r.sig # Refused => SignedFor(r.call, r.sig)
              /\ pc[r.call] # "idle"
         /\ UNCHANGED <<wiring, pc, offer, ledger, approval, pending, sig, walletVars, settled, said>>
<1>1. CASE m \in requests /\ (HandleSignRequest(m) \/ DuplicateRequest(m))
  <2>1. responses' = responses \union {SignResponse(m)} /\ requests' \subseteq requests
    BY <1>1 DEF HandleSignRequest, DuplicateRequest
  <2>2. pc[m.call] # "idle"  BY <1>1 DEF IInv, Addressed
  <2>3. /\ SignResponse(m) \in [call : Calls, sig : Signatures \union {Refused}]
        /\ SignResponse(m).call = m.call
        /\ SignResponse(m).sig # Refused => SignedFor(m.call, SignResponse(m).sig)
    BY <1>1, ResponseAddressed
  <2>4. \A r \in responses' \ responses : r = SignResponse(m)  BY <2>1
  <2>5. UNCHANGED <<wiring, pc, offer, ledger, approval, pending, sig, walletVars, settled, said>>
    BY <1>1 DEF HandleSignRequest, DuplicateRequest
  <2> QED  BY <2>1, <2>2, <2>3, <2>4, <2>5
<1>2. CASE m \in requests /\ SignError(m)
  <2>1. m.call \in Calls /\ pc[m.call] # "idle"  BY <1>2 DEF IInv, TypeOK, Addressed
  <2> QED  BY <1>2, <2>1 DEF SignError
<1>3. CASE m \in requests /\ LoseRequest(m)  BY <1>3 DEF LoseRequest
<1>4. CASE m \in responses /\ LoseResponse(m)  BY <1>4 DEF LoseResponse
<1> QED  BY <1>1, <1>2, <1>3, <1>4 DEF Message

----------------------------------------------------------------------------
(* The invariant is kept *)

LEMMA TypeStep ==
  ASSUME IInv, [Next]_vars
  PROVE  TypeOK'
<1> USE DEF IInv
<1>1. ASSUME NEW c \in Calls, NEW o \in Offers, Intent(c, o)  PROVE TypeOK'
  BY <1>1 DEF TypeOK, Intent, Goto, Labels, wiring, mqttVars, walletVars
<1>2. ASSUME NEW c \in Calls, NEW status \in {"APPROVED", "REJECTED"}, Decide(c, status)  PROVE TypeOK'
  BY <1>2 DEF TypeOK, Decide, Decisions, wiring, mqttVars, walletVars
<1>3. ASSUME NEW c \in Calls, RequestApproval(c)  PROVE TypeOK'
  BY <1>3 DEF TypeOK, RequestApproval, Decisions, wiring, mqttVars, walletVars
<1>4. ASSUME NEW c \in Calls, PollApproval(c)  PROVE TypeOK'
  BY <1>4 DEF TypeOK, PollApproval, Goto, Labels, wiring, mqttVars, walletVars
<1>5. ASSUME NEW c \in Calls, ApprovalExpires(c)  PROVE TypeOK'
  BY <1>5 DEF TypeOK, ApprovalExpires, Goto, Labels, Decisions, wiring, mqttVars, walletVars
<1>6. ASSUME NEW c \in Calls, Sign(c)  PROVE TypeOK'
  <2> DEFINE m == [call |-> c, wallet |-> defaultAddr, payload |-> <<c, offer[c]>>]
  <2>1. m \in [call : Calls, wallet : Wallets, payload : Calls \X (Offers \union {None})]
    BY DEF TypeOK
  <2>2. requests' = requests \union {m}  BY <1>6 DEF Sign
  <2> HIDE DEF m
  <2> QED  BY <1>6, <2>1, <2>2 DEF TypeOK, Sign, Goto, Labels, wiring, walletVars
<1>7. ASSUME NEW c \in Calls, Signed(c)  PROVE TypeOK'
  BY <1>7 DEF TypeOK, Signed, Goto, Labels, wiring, mqttVars, walletVars
<1>8. ASSUME NEW c \in Calls, SignGivesUp(c)  PROVE TypeOK'
  BY <1>8 DEF TypeOK, SignGivesUp, Goto, Labels, wiring, walletVars
<1>9. ASSUME NEW c \in Calls, Authorize(c)  PROVE TypeOK'
  <2>1. settled' \in SUBSET Calls /\ pc' \in [Calls -> Labels]
    BY <1>9 DEF TypeOK, Authorize, Goto, Labels
  <2> QED  BY <1>9, <2>1 DEF TypeOK, Authorize, wiring, mqttVars, walletVars
<1>10. ASSUME NEW c \in Calls, RecordSpend(c)  PROVE TypeOK'
  BY <1>10 DEF TypeOK, RecordSpend, Goto, Labels, wiring, mqttVars, walletVars
<1>11. ASSUME NEW m, Message(m)  PROVE TypeOK'
  <2>1. responses' \in SUBSET [call : Calls, sig : Signatures \union {Refused}]
    BY <1>11, MessageEffect DEF TypeOK
  <2> QED  BY <1>11, <2>1, MessageEffect DEF TypeOK, wiring, walletVars
<1>12. ASSUME NEW m \in responses, HandleResponse(m)  PROVE TypeOK'
  <2>1. m.call \in Calls /\ m.sig \in Signatures \union {Refused}  BY DEF TypeOK
  <2>2. sig' \in [Calls -> Signatures \union {Refused, None}]
    BY <1>12, <2>1 DEF TypeOK, HandleResponse
  <2> QED  BY <1>12, <2>2 DEF TypeOK, HandleResponse, wiring, walletVars
<1>13. CASE KeyChange
  BY <1>13, KeyEffect DEF TypeOK, wiring, mqttVars
<1>14. CASE Restart
  <2>1. pc' \in [Calls -> Labels]  BY <1>14 DEF TypeOK, Restart, Labels
  <2> QED  BY <1>14, <2>1 DEF TypeOK, Restart, wiring, walletVars
<1>15. CASE UNCHANGED vars  BY <1>15 DEF TypeOK, vars
<1> QED
  BY <1>1, <1>2, <1>3, <1>4, <1>5, <1>6, <1>7, <1>8, <1>9, <1>10, <1>11, <1>12, <1>13, <1>14, <1>15,
     NextCases

\* What never changes or only grows: the wiring of the process, the offer of a
\* call that has one, what was stored and what humans said.
LEMMA Stable ==
  ASSUME IInv, [Next]_vars
  PROVE  /\ defaultAddr' = defaultAddr /\ approver' = approver
         /\ stored \subseteq stored' /\ said \subseteq said'
         /\ \A c \in Calls : pc[c] # "idle" => pc'[c] # "idle" /\ offer'[c] = offer[c]
<1> USE DEF IInv
<1> DEFINE Kept == /\ defaultAddr' = defaultAddr /\ approver' = approver
                   /\ stored \subseteq stored' /\ said \subseteq said'
                   /\ \A c \in Calls : pc[c] # "idle" => pc'[c] # "idle" /\ offer'[c] = offer[c]
<1>1. ASSUME NEW c \in Calls, NEW o \in Offers, Intent(c, o)  PROVE Kept
  BY <1>1 DEF TypeOK, Intent, Goto, wiring, walletVars
<1>2. ASSUME NEW c \in Calls, NEW status \in {"APPROVED", "REJECTED"}, Decide(c, status)  PROVE Kept
  BY <1>2 DEF TypeOK, Decide, wiring, walletVars
<1>3. ASSUME NEW c \in Calls,
             RequestApproval(c) \/ PollApproval(c) \/ ApprovalExpires(c) \/ Sign(c) \/ Signed(c)
      PROVE  Kept
  BY <1>3 DEF TypeOK, RequestApproval, PollApproval, ApprovalExpires, Sign, Signed, Goto, wiring, walletVars
<1>4. ASSUME NEW c \in Calls, SignGivesUp(c) \/ Authorize(c) \/ RecordSpend(c)  PROVE Kept
  BY <1>4 DEF TypeOK, SignGivesUp, Authorize, RecordSpend, Goto, wiring, walletVars
<1>5. ASSUME NEW m, Message(m)  PROVE Kept
  BY <1>5, MessageEffect DEF wiring, walletVars
<1>6. ASSUME NEW m \in responses, HandleResponse(m)  PROVE Kept
  BY <1>6 DEF HandleResponse, wiring, walletVars
<1>7. CASE KeyChange  BY <1>7, KeyEffect DEF wiring
<1>8. CASE Restart  BY <1>8 DEF TypeOK, Restart, wiring, walletVars
<1>9. CASE UNCHANGED vars  BY <1>9 DEF vars
<1>10. Kept  BY <1>1, <1>2, <1>3, <1>4, <1>5, <1>6, <1>7, <1>8, <1>9, NextCases
<1> QED  BY <1>10

LEMMA SignedForStays ==
  ASSUME IInv, [Next]_vars, NEW c \in Calls, pc[c] # "idle", NEW s, SignedFor(c, s)
  PROVE  SignedFor(c, s)'
BY Stable DEF SignedFor

LEMMA KeysStep ==
  ASSUME IInv, [Next]_vars
  PROVE  KeysStored'
<1>1. CASE UNCHANGED <<secrets, loaded, stored>>  BY <1>1 DEF IInv, KeysStored
<1>2. CASE KeyChange  BY <1>2, KeyEffect
<1>3. \A m : Message(m) => UNCHANGED <<secrets, loaded, stored>>  BY MessageEffect DEF walletVars
<1> QED
  BY <1>1, <1>2, <1>3, NextCases
     DEF Intent, Decide, RequestApproval, PollApproval, ApprovalExpires, Sign, Signed, SignGivesUp,
         Authorize, RecordSpend, HandleResponse, Restart, vars, walletVars

LEMMA AddressedStep ==
  ASSUME IInv, [Next]_vars
  PROVE  Addressed'
<1> USE DEF IInv
<1>1. ASSUME NEW m \in requests
      PROVE  /\ m.wallet = defaultAddr' /\ m.payload = <<m.call, offer'[m.call]>>
             /\ pc'[m.call] # "idle"
  <2>1. m.call \in Calls  BY DEF TypeOK
  <2> QED  BY <2>1, Stable DEF Addressed
<1>2. ASSUME NEW m \in responses
      PROVE  (m.sig # Refused => SignedFor(m.call, m.sig)') /\ pc'[m.call] # "idle"
  <2>1. m.call \in Calls /\ pc[m.call] # "idle"  BY DEF TypeOK, Addressed
  <2> QED  BY <2>1, Stable, SignedForStays DEF Addressed
<1>3. CASE requests' \subseteq requests /\ responses' \subseteq responses
  BY <1>1, <1>2, <1>3 DEF Addressed
<1>4. ASSUME NEW c \in Calls, Sign(c)  PROVE Addressed'
  <2> DEFINE n == [call |-> c, wallet |-> defaultAddr, payload |-> <<c, offer[c]>>]
  <2>1. requests' = requests \union {n} /\ responses' = responses /\ pc[c] = "allowed"
    BY <1>4 DEF Sign
  <2>2. n.wallet = defaultAddr' /\ n.payload = <<n.call, offer'[n.call]>> /\ pc'[n.call] # "idle"
    BY <2>1, Stable
  <2> HIDE DEF n
  <2> QED  BY <1>1, <1>2, <2>1, <2>2 DEF Addressed
<1>5. ASSUME NEW m, Message(m)  PROVE Addressed'
  <2>1. ASSUME NEW r \in responses'
        PROVE  (r.sig # Refused => SignedFor(r.call, r.sig)') /\ pc'[r.call] # "idle"
    <3>1. CASE r \in responses  BY <1>2, <3>1
    <3>2. CASE r \notin responses
      <4>1. r.call \in Calls /\ pc[r.call] # "idle" /\ (r.sig # Refused => SignedFor(r.call, r.sig))
        BY <1>5, <2>1, <3>2, MessageEffect
      <4> QED  BY <4>1, Stable, SignedForStays
    <3> QED  BY <3>1, <3>2
  <2>2. requests' \subseteq requests  BY <1>5, MessageEffect
  <2> QED  BY <1>1, <2>1, <2>2 DEF Addressed
<1>6. CASE KeyChange  BY <1>3, <1>6, KeyEffect DEF mqttVars
<1> QED
  BY <1>3, <1>4, <1>5, <1>6, NextCases
     DEF Intent, Decide, RequestApproval, PollApproval, ApprovalExpires, Signed, SignGivesUp,
         Authorize, RecordSpend, HandleResponse, Restart, vars, mqttVars

LEMMA AdmittedStep ==
  ASSUME IInv, [Next]_vars
  PROVE  Admitted'
<1> USE DEF IInv
<1> DEFINE Ok(x) == /\ pc'[x] \notin {"idle", "denied"} => StaticRules(offer'[x])
                    /\ pc'[x] = "approval" => approver'
                    /\ approval'[x] = "APPROVED" => x \in said'
                    /\ pc'[x] \in {"allowed", "signing", "settling", "paid", "done"} \/ x \in settled' =>
                         (RequiresHumanApproval(offer'[x]) => approver' /\ x \in said')
<1>0. SUFFICES ASSUME NEW x \in Calls PROVE Ok(x)
  BY DEF Admitted, StaticRules, RequiresHumanApproval, CheckDomain, MatchDomain, Amount
<1>1. /\ pc[x] \notin {"idle", "denied"} => StaticRules(offer[x])
      /\ pc[x] = "approval" => approver
      /\ approval[x] = "APPROVED" => x \in said
      /\ pc[x] \in {"allowed", "signing", "settling", "paid", "done"} \/ x \in settled =>
           (RequiresHumanApproval(offer[x]) => approver /\ x \in said)
  BY DEF Admitted
<1>2. x \in settled => pc[x] \in {"paid", "done", "failed"}  BY DEF SignedOnce
<1>3. approver' = approver /\ said \subseteq said'  BY Stable
<1>4. ASSUME pc'[x] = pc[x], offer'[x] = offer[x], approval'[x] = approval[x],
             x \in settled' => x \in settled
      PROVE  Ok(x)
  BY <1>1, <1>3, <1>4
<1>5. ASSUME NEW c \in Calls, NEW o \in Offers, Intent(c, o)  PROVE Ok(x)
  <2>1. CASE x # c  BY <1>4, <1>5, <2>1 DEF TypeOK, Intent, Goto
  <2>2. CASE x = c
    <3>1. offer'[x] = o /\ approval'[x] = approval[x] /\ settled' = settled /\ pc[x] = "idle"
      BY <1>5, <2>2 DEF TypeOK, Intent
    <3>2. pc'[x] = IF ~Allow(o) THEN "denied" ELSE IF ~RequiresHumanApproval(o) THEN "allowed"
                   ELSE IF approver THEN "approval" ELSE "denied"
      BY <1>5, <2>2 DEF TypeOK, Intent, Goto
    <3>3. Allow(o) => StaticRules(o)  BY DEF Allow
    <3> QED  BY <1>1, <1>2, <1>3, <3>1, <3>2, <3>3
  <2> QED  BY <2>1, <2>2
<1>6. ASSUME NEW c \in Calls, NEW status \in {"APPROVED", "REJECTED"}, Decide(c, status)  PROVE Ok(x)
  <2>1. CASE x # c  BY <1>4, <1>6, <2>1 DEF TypeOK, Decide
  <2>2. CASE x = c
    <3>1. UNCHANGED <<pc, offer, settled>> /\ approval'[x] = status
          /\ (status = "APPROVED" => x \in said')
      BY <1>6, <2>2 DEF TypeOK, Decide
    <3> QED  BY <1>1, <1>3, <3>1
  <2> QED  BY <2>1, <2>2
<1>7. ASSUME NEW c \in Calls, RequestApproval(c)  PROVE Ok(x)
  <2>1. UNCHANGED <<pc, offer, settled>> /\ (approval'[x] = approval[x] \/ approval'[x] = "PENDING")
    BY <1>7 DEF TypeOK, RequestApproval
  <2> QED  BY <1>1, <1>3, <2>1
<1>8. ASSUME NEW c \in Calls, PollApproval(c)  PROVE Ok(x)
  <2>1. CASE x # c  BY <1>4, <1>8, <2>1 DEF TypeOK, PollApproval, Goto
  <2>2. CASE x = c
    <3>1. /\ UNCHANGED <<offer, settled, approval>> /\ pc[x] = "approval"
          /\ pc'[x] = IF approval[x] = "APPROVED" THEN "allowed" ELSE "denied"
      BY <1>8, <2>2 DEF TypeOK, PollApproval, Goto
    <3> QED  BY <1>1, <1>2, <1>3, <3>1
  <2> QED  BY <2>1, <2>2
<1>9. ASSUME NEW c \in Calls, ApprovalExpires(c)  PROVE Ok(x)
  <2>1. /\ UNCHANGED <<offer, settled>> /\ (pc'[x] = pc[x] \/ pc'[x] = "denied")
        /\ (approval'[x] = approval[x] \/ approval'[x] = "EXPIRED")
    BY <1>9 DEF TypeOK, ApprovalExpires, Goto
  <2> QED  BY <1>1, <1>3, <2>1
<1>10. ASSUME NEW c \in Calls, Sign(c) \/ Signed(c) \/ SignGivesUp(c) \/ RecordSpend(c)  PROVE Ok(x)
  <2>1. CASE x # c  BY <1>4, <1>10, <2>1 DEF TypeOK, Sign, Signed, SignGivesUp, RecordSpend, Goto
  <2>2. CASE x = c
    <3>1. /\ UNCHANGED <<offer, settled, approval>>
          /\ pc[x] \in {"allowed", "signing", "settling", "paid"}
          /\ pc'[x] \in {"signing", "settling", "done", "failed"}
      BY <1>10, <2>2 DEF TypeOK, Sign, Signed, SignGivesUp, RecordSpend, Goto
    <3> QED  BY <1>1, <1>3, <3>1
  <2> QED  BY <2>1, <2>2
<1>11. ASSUME NEW c \in Calls, Authorize(c)  PROVE Ok(x)
  <2>1. CASE x # c  BY <1>4, <1>11, <2>1 DEF TypeOK, Authorize, Goto
  <2>2. CASE x = c
    <3>1. /\ UNCHANGED <<offer, approval>> /\ pc[x] = "settling" /\ pc'[x] \in {"paid", "failed"}
      BY <1>11, <2>2 DEF TypeOK, Authorize, Goto
    <3> QED  BY <1>1, <1>3, <3>1
  <2> QED  BY <2>1, <2>2
<1>12. ASSUME NEW m, Message(m)  PROVE Ok(x)  BY <1>4, <1>12, MessageEffect
<1>13. ASSUME NEW m \in responses, HandleResponse(m)  PROVE Ok(x)  BY <1>4, <1>13 DEF HandleResponse
<1>14. CASE KeyChange  BY <1>4, <1>14, KeyEffect
<1>15. CASE Restart
  <2>1. /\ UNCHANGED <<offer, approval, settled>>
        /\ pc'[x] = pc[x] \/ (pc'[x] = "failed" /\ pc[x] \notin {"idle", "denied"})
    BY <1>15 DEF TypeOK, Restart
  <2> QED  BY <1>1, <1>3, <2>1
<1>16. CASE UNCHANGED vars  BY <1>4, <1>16 DEF vars
<1> QED
  BY <1>5, <1>6, <1>7, <1>8, <1>9, <1>10, <1>11, <1>12, <1>13, <1>14, <1>15, <1>16, NextCases

LEMMA SignedStep ==
  ASSUME IInv, [Next]_vars
  PROVE  SignedOnce'
<1> USE DEF IInv
<1> DEFINE For(x, s) == <<defaultAddr', s.key>> \in stored' /\ s.payload = <<x, offer'[x]>>
           Ok(x) == /\ x \in pending' => pc'[x] = "signing" /\ sig'[x] = None
                    /\ pc'[x] \in {"idle", "approval", "allowed", "denied"} => sig'[x] = None
                    /\ sig'[x] \notin {None, Refused} => For(x, sig'[x])
                    /\ pc'[x] \in {"settling", "paid", "done"} \/ x \in settled' =>
                         sig'[x] \notin {None, Refused}
                    /\ x \in settled' => pc'[x] \in {"paid", "done", "failed"}
<1>0. SUFFICES ASSUME NEW x \in Calls PROVE Ok(x)
  BY DEF SignedOnce, SignedFor
<1>1. /\ x \in pending => pc[x] = "signing" /\ sig[x] = None
      /\ pc[x] \in {"idle", "approval", "allowed", "denied"} => sig[x] = None
      /\ pc[x] \in {"settling", "paid", "done"} \/ x \in settled => sig[x] \notin {None, Refused}
      /\ x \in settled => pc[x] \in {"paid", "done", "failed"}
      /\ pc[x] \in Labels
  BY DEF SignedOnce, TypeOK
<1>2. ASSUME sig[x] \notin {None, Refused}  PROVE For(x, sig[x])
  <2>1. SignedFor(x, sig[x]) /\ pc[x] # "idle"  BY <1>2 DEF SignedOnce
  <2> QED  BY <2>1, Stable DEF SignedFor
<1> HIDE DEF For
<1>3. ASSUME pc'[x] = pc[x], sig'[x] = sig[x], x \in pending' => x \in pending,
             x \in settled' => x \in settled
      PROVE  Ok(x)
  BY <1>1, <1>2, <1>3
<1>4. ASSUME NEW c \in Calls, NEW o \in Offers, Intent(c, o)  PROVE Ok(x)
  <2>1. /\ UNCHANGED <<pending, sig, settled>>
        /\ \/ pc'[x] = pc[x]
           \/ pc[x] = "idle" /\ pc'[x] \in {"denied", "allowed", "approval"}
    BY <1>4 DEF TypeOK, Intent, Goto, mqttVars
  <2> QED  BY <1>1, <1>2, <2>1
<1>5. ASSUME NEW c \in Calls, \/ \E status \in {"APPROVED", "REJECTED"} : Decide(c, status)
                              \/ RequestApproval(c)
      PROVE  Ok(x)
  BY <1>3, <1>5 DEF Decide, RequestApproval, mqttVars
<1>6. ASSUME NEW c \in Calls, PollApproval(c) \/ ApprovalExpires(c)  PROVE Ok(x)
  <2>1. /\ UNCHANGED <<pending, sig, settled>>
        /\ \/ pc'[x] = pc[x]
           \/ pc[x] = "approval" /\ pc'[x] \in {"denied", "allowed"}
    BY <1>6 DEF TypeOK, PollApproval, ApprovalExpires, Goto, mqttVars
  <2> QED  BY <1>1, <1>2, <2>1
<1>7. ASSUME NEW c \in Calls, Sign(c)  PROVE Ok(x)
  <2>1. CASE x # c  BY <1>3, <1>7, <2>1 DEF TypeOK, Sign, Goto
  <2>2. CASE x = c
    <3>1. pc[x] = "allowed" /\ pc'[x] = "signing" /\ UNCHANGED <<sig, settled>>
      BY <1>7, <2>2 DEF TypeOK, Sign, Goto
    <3> QED  BY <1>1, <1>2, <3>1
  <2> QED  BY <2>1, <2>2
<1>8. ASSUME NEW c \in Calls, Signed(c)  PROVE Ok(x)
  <2>1. CASE x # c  BY <1>3, <1>8, <2>1 DEF TypeOK, Signed, Goto, mqttVars
  <2>2. CASE x = c
    <3>1. /\ pc[x] = "signing" /\ sig[x] # None /\ UNCHANGED <<pending, sig, settled>>
          /\ pc'[x] = IF sig[x] = Refused THEN "failed" ELSE "settling"
      BY <1>8, <2>2 DEF TypeOK, Signed, Goto, mqttVars
    <3> QED  BY <1>1, <1>2, <3>1
  <2> QED  BY <2>1, <2>2
<1>9. ASSUME NEW c \in Calls, SignGivesUp(c)  PROVE Ok(x)
  <2>1. CASE x # c  BY <1>3, <1>9, <2>1 DEF TypeOK, SignGivesUp, Goto
  <2>2. CASE x = c
    <3>1. /\ pc[x] = "signing" /\ pc'[x] = "failed" /\ x \notin pending' /\ UNCHANGED <<sig, settled>>
      BY <1>9, <2>2 DEF TypeOK, SignGivesUp, Goto
    <3> QED  BY <1>1, <1>2, <3>1
  <2> QED  BY <2>1, <2>2
<1>10. ASSUME NEW c \in Calls, Authorize(c) \/ RecordSpend(c)  PROVE Ok(x)
  <2>1. CASE x # c  BY <1>3, <1>10, <2>1 DEF TypeOK, Authorize, RecordSpend, Goto, mqttVars
  <2>2. CASE x = c
    <3>1. /\ pc[x] \in {"settling", "paid"} /\ pc'[x] \in {"paid", "failed", "done"}
          /\ UNCHANGED <<pending, sig>>
      BY <1>10, <2>2 DEF TypeOK, Authorize, RecordSpend, Goto, mqttVars
    <3> QED  BY <1>1, <1>2, <3>1
  <2> QED  BY <2>1, <2>2
<1>11. ASSUME NEW m, Message(m)  PROVE Ok(x)  BY <1>3, <1>11, MessageEffect
<1>12. ASSUME NEW m \in responses, HandleResponse(m)  PROVE Ok(x)
  <2>1. UNCHANGED <<pc, settled>> /\ pending' = pending \ {m.call}  BY <1>12 DEF HandleResponse
  <2>2. CASE x # m.call \/ x \notin pending
    <3>1. sig'[x] = sig[x]  BY <1>12, <2>2 DEF TypeOK, HandleResponse
    <3> QED  BY <1>3, <2>1, <3>1
  <2>3. CASE x = m.call /\ x \in pending
    <3>1. sig'[x] = m.sig /\ x \notin pending' /\ pc'[x] = "signing"
      BY <1>1, <1>12, <2>1, <2>3 DEF TypeOK, HandleResponse
    <3>2. m.sig # Refused => For(x, m.sig)
      <4>1. m.sig # Refused => SignedFor(x, m.sig)  BY <2>3 DEF Addressed
      <4> QED  BY <1>1, <2>3, <4>1, SignedForStays DEF For, SignedFor
    <3> QED  BY <1>1, <2>1, <3>1, <3>2
  <2> QED  BY <2>2, <2>3
<1>13. CASE KeyChange  BY <1>3, <1>13, KeyEffect DEF mqttVars
<1>14. CASE Restart
  <2>1. /\ UNCHANGED <<sig, settled>> /\ x \notin pending'
        /\ \/ pc'[x] = pc[x]
           \/ pc'[x] = "failed" /\ pc[x] # "idle"
    BY <1>14 DEF TypeOK, Restart
  <2> QED  BY <1>1, <1>2, <2>1
<1>15. CASE UNCHANGED vars  BY <1>3, <1>15 DEF vars
<1> QED
  BY <1>4, <1>5, <1>6, <1>7, <1>8, <1>9, <1>10, <1>11, <1>12, <1>13, <1>14, <1>15, NextCases

LEMMA InitHolds ==
  ASSUME NoneAssumption, Init
  PROVE  IInv
<1>1. secrets \in [Names -> Sealed \union {None}] /\ loaded = secrets
  <2>1. master \in Masters /\ loaded = secrets
        /\ secrets \in [Names -> {None} \union {Seal(k, master) : k \in Keys}]
    BY DEF Init
  <2>2. \A k \in Keys : Seal(k, master) \in Sealed  BY <2>1 DEF Seal, Sealed
  <2>3. {None} \union {Seal(k, master) : k \in Keys} \subseteq Sealed \union {None}  BY <2>2
  <2> QED  BY <2>1, <2>3
<1>2. /\ stored \in SUBSET (Names \X Keys)
      /\ \A n \in Names : secrets[n] # None => <<n, secrets[n].key>> \in stored
  <2>1. stored = {<<n, secrets[n].key>> : n \in {n \in Names : secrets[n] # None}}  BY DEF Init
  <2>2. \A n \in Names : secrets[n] # None => secrets[n].key \in Keys  BY <1>1 DEF Sealed
  <2> QED  BY <2>1, <2>2
<1>3. TypeOK  BY <1>1, <1>2 DEF Init, TypeOK, Labels, Wallets
<1>4. KeysStored  BY <1>1, <1>2 DEF KeysStored
<1>5. Admitted  BY DEF Init, Admitted, NoneAssumption, Decisions
<1>6. Addressed  BY DEF Init, Addressed
<1>7. SignedOnce  BY DEF Init, SignedOnce
<1> QED  BY <1>3, <1>4, <1>5, <1>6, <1>7 DEF IInv

\* Types of the client's, the wallet's and the apiserver's state.
THEOREM TypeCorrect == Spec => []TypeOK
<1>1. Init => IInv  BY InitHolds, NoneAssumption
<1>2. IInv /\ [Next]_vars => IInv'
  BY TypeStep, KeysStep, AdmittedStep, AddressedStep, SignedStep DEF IInv
<1>3. IInv => TypeOK  BY DEF IInv
<1> QED  BY <1>1, <1>2, <1>3, PTL DEF Spec

\* Money leaves only for an offer of an asset, on a chain, from a plainly named
\* host and of a readable amount the rules of the policy engine admit, with a
\* human's approval where the amount asks for one, on a signature the wallet
\* daemon made over that very offer with a key of the client's wallet.
THEOREM PaymentsAreAuthorized == Spec => []PaymentAuthorized
<1>1. Init => IInv  BY InitHolds, NoneAssumption
<1>2. IInv /\ [Next]_vars => IInv'
  BY TypeStep, KeysStep, AdmittedStep, AddressedStep, SignedStep DEF IInv
<1>3. IInv => PaymentAuthorized
  <2> SUFFICES ASSUME IInv, NEW c \in settled
               PROVE  LET o == offer[c] IN
                      /\ Policy.assets = {} \/ o.asset \in Policy.assets
                      /\ Policy.chains = {} \/ o.chain \in Policy.chains
                      /\ Plain(o) => CheckDomain(o.server)
                      /\ o.parses /\ Policy.max > 0 => o.amount <= Policy.max
                      /\ o.parses /\ Policy.threshold > 0 /\ o.amount >= Policy.threshold =>
                           approver /\ c \in said
                      /\ <<defaultAddr, sig[c].key>> \in stored /\ sig[c].payload = <<c, o>>
                      /\ "" \notin Names => defaultAddr # ""
    BY DEF PaymentAuthorized
  <2> DEFINE o == offer[c]
  <2>1. c \in Calls  BY DEF IInv, TypeOK
  <2>2. pc[c] \in {"paid", "done", "failed"} /\ SignedFor(c, sig[c])
    BY <2>1 DEF IInv, SignedOnce
  <2>3. StaticRules(o) /\ (RequiresHumanApproval(o) => approver /\ c \in said)
    BY <2>1, <2>2 DEF IInv, Admitted
  <2>4. defaultAddr \in Names
    <3>1. <<defaultAddr, sig[c].key>> \in Names \X Keys  BY <2>2 DEF IInv, TypeOK, SignedFor
    <3> QED  BY <3>1
  <2>5. o.parses => Amount(o) = o.amount  BY DEF Amount
  <2> HIDE DEF o
  <2>6. /\ Policy.assets = {} \/ o.asset \in Policy.assets
        /\ Policy.chains = {} \/ o.chain \in Policy.chains
        /\ Plain(o) => CheckDomain(o.server)
        /\ o.parses /\ Policy.max > 0 => o.amount <= Policy.max
    BY <2>3, <2>5, PolicyAssumption DEF StaticRules, Plain, PolicyAssumption
  <2>7. o.parses /\ Policy.threshold > 0 /\ o.amount >= Policy.threshold => approver /\ c \in said
    BY <2>3, <2>5 DEF RequiresHumanApproval
  <2> QED  BY <2>2, <2>4, <2>6, <2>7 DEF SignedFor, o
<1> QED  BY <1>1, <1>2, <1>3, PTL DEF Spec

\* What was paid for stays as it was signed: the offer and the signature of a
\* settled call never change (a late, repeated or foreign sign response and a
\* restart of the TaskManager included).
THEOREM SettledForGood ==
    Spec => [][\A c \in settled : c \in settled' /\ offer'[c] = offer[c] /\ sig'[c] = sig[c]]_vars
<1>1. Init => IInv  BY InitHolds, NoneAssumption
<1>2. IInv /\ [Next]_vars => IInv'
  BY TypeStep, KeysStep, AdmittedStep, AddressedStep, SignedStep DEF IInv
<1>3. IInv /\ [Next]_vars =>
        \A c \in settled : c \in settled' /\ offer'[c] = offer[c] /\ sig'[c] = sig[c]
  <2> SUFFICES ASSUME IInv, [Next]_vars, NEW c \in settled
               PROVE  c \in settled' /\ offer'[c] = offer[c] /\ sig'[c] = sig[c]
    OBVIOUS
  <2>1. c \in Calls /\ pc[c] # "idle"  BY DEF IInv, TypeOK, SignedOnce
  <2>2. offer'[c] = offer[c]  BY <2>1, Stable
  <2>3. settled \subseteq settled'
    <3>1. \A m : Message(m) => settled' = settled  BY MessageEffect
    <3>2. KeyChange => settled' = settled  BY KeyEffect
    <3> QED
      BY <3>1, <3>2, NextCases
         DEF Intent, Decide, RequestApproval, PollApproval, ApprovalExpires, Sign, Signed, SignGivesUp,
             Authorize, RecordSpend, HandleResponse, Restart, vars
  <2>4. sig'[c] = sig[c]
    <3>1. \A m : Message(m) => sig' = sig  BY MessageEffect
    <3>2. KeyChange => sig' = sig  BY KeyEffect DEF mqttVars
    <3>3. ASSUME NEW m \in responses, HandleResponse(m)  PROVE sig'[c] = sig[c]
      <4>1. c \notin pending  BY <2>1 DEF IInv, SignedOnce
      <4> QED  BY <3>3, <4>1, <2>1 DEF HandleResponse, IInv, TypeOK
    <3> QED
      BY <3>1, <3>2, <3>3, NextCases
         DEF Intent, Decide, RequestApproval, PollApproval, ApprovalExpires, Sign, Signed, SignGivesUp,
             Authorize, RecordSpend, Restart, vars, mqttVars
  <2> QED  BY <2>2, <2>3, <2>4
<1> QED  BY <1>1, <1>2, <1>3, PTL DEF Spec
============================================================================
