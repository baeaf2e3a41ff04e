----------------------------- MODULE Payments ------------------------------
(***************************************************************************)
(* Payments for HTTP requests answered with 402: the x402 client of one    *)
(* TaskManager process with its policy engine and the ledger it keeps in   *)
(* memory, human approval, signing by the wallet daemon over MQTT, and     *)
(* settlement by the facilitator (external).  Requests are served          *)
(* concurrently; a payment is one call of Do that met a 402.               *)
(***************************************************************************)
EXTENDS Naturals, FiniteSets, SequencesExt

CONSTANTS
  Calls,       \* calls of Do
  Offers,      \* 402 answers: [url, server, asset, chain, amount, payTo, parses]: the URL
               \* of the request, the host that answered and what it asks for
  Names,       \* names of wallet keys
  Keys,        \* private keys
  Masters,     \* contents of the master key file
  Policy,      \* [assets, chains, max, blocked, allowed, budget, threshold]
  None,
  Refused,     \* an error in place of a signature
  MaxFaults,   \* bound on lost and duplicated messages, failures and restarts
  MaxKeyOps    \* bound on the changes of the wallet's keys and its restarts

\* Statuses of an approval row.
Decisions == {"PENDING", "APPROVED", "REJECTED", "EXPIRED"}

ASSUME NoneAssumption == None \notin Decisions
ASSUME PolicyAssumption == Policy.max \in Nat /\ Policy.budget \in Nat /\ Policy.threshold \in Nat

VARIABLES
  defaultAddr,  \* the wallet set by SetDefaultWallet, "" in a process that does not
  approver,     \* whether an ApprovalHandler is wired in
  provider,     \* secret store of the wallet daemon: "default", "vault" or "csi"
  pc,           \* where a call stands
  offer,        \* the offer a call met
  ledger,       \* daily spent by wallet (memorySpendingStore)
  approval,     \* status column of the call's approval row, None without a row
  pending,      \* calls with an entry in the sign client's map
  requests,     \* sign requests on their way: [call, wallet, payload]
  responses,    \* sign responses on their way: [call, sig]
  sig,          \* the result of Sign: [key, payload], Refused or None
  secrets,      \* what the provider keeps: a table, Vault, or the mounted file
  master,       \* master key the wallet daemon read at start (default provider)
  loaded,       \* keys the wallet daemon read at start (CSI provider)
  stored,       \* history: <<name, key>> ever stored
  settled,      \* external: calls the facilitator settled
  said,         \* history: calls a human approved
  faults, keyOps

vars == <<defaultAddr, approver, provider, pc, offer, ledger, approval, pending, requests,
          responses, sig, secrets, master, loaded, stored, settled, said, faults, keyOps>>
wiring == <<defaultAddr, approver, provider>>
mqttVars == <<pending, requests, responses, sig>>
walletVars == <<secrets, master, loaded, stored, keyOps>>

Fault == faults < MaxFaults /\ faults' = faults + 1

----------------------------------------------------------------------------
(* Policy.  A domain is the sequence of its labels, the last one first; a  *)
(* pattern [wild, name] with wild stands for *.name.  A URL is the text    *)
(* between its scheme and its first slash: the parts its colons separate.  *)

MatchDomain(pattern, domain) ==
  IF pattern.wild THEN IsPrefix(pattern.name, domain) ELSE pattern.name = domain

\* A port is cut off; but so is all that follows a user name and its colon,
\* and letter case, a user name or a query before the first slash stay.
ExtractDomain(url) == Head(url)

CheckDomain(domain) ==
  /\ \A p \in Policy.blocked : ~MatchDomain(p, domain)
  /\ Policy.allowed = {} \/ \E p \in Policy.allowed : MatchDomain(p, domain)

\* ParseAssetAmount's error is dropped: such an amount counts as 0.
Amount(o) == IF o.parses THEN o.amount ELSE 0

StaticRules(o) ==
  /\ Policy.assets = {} \/ o.asset \in Policy.assets
  /\ Policy.chains = {} \/ o.chain \in Policy.chains
  /\ Policy.max = 0 \/ Amount(o) <= Policy.max
  /\ CheckDomain(ExtractDomain(o.url))

SpentBy(w) == IF w \in DOMAIN ledger THEN ledger[w] ELSE 0

\* The budget is compared with what was spent under the recipient's name.
DailyBudget(o) == Policy.budget = 0 \/ SpentBy(o.payTo) + Amount(o) <= Policy.budget

Allow(o) == StaticRules(o) /\ DailyBudget(o)

RequiresHumanApproval(o) == Policy.threshold > 0 /\ Amount(o) >= Policy.threshold

----------------------------------------------------------------------------
(* The wallet's secret store.  The table's values are sealed with the      *)
(* master key; the seal of the other providers' values means nothing.      *)

Seal(k, m) == [key |-> k, seal |-> m]

GetSecretDefault(n) ==
  IF secrets[n] # None /\ secrets[n].seal = master THEN secrets[n].key ELSE None

GetSecretVault(n) == IF secrets[n] = None THEN None ELSE secrets[n].key

GetSecretCSI(n) == IF loaded[n] = None THEN None ELSE loaded[n].key

GetSecret(n) ==
  CASE n \notin Names -> None
    [] OTHER -> CASE provider = "csi" -> GetSecretCSI(n)
                  [] provider = "vault" -> GetSecretVault(n)
                  [] OTHER -> GetSecretDefault(n)

\* A name that exists is overwritten.
Store(n, k, m) ==
  /\ secrets' = [secrets EXCEPT ![n] = Seal(k, m)]
  /\ stored' = stored \union {<<n, k>>}

PutSecretDefault(n, k, m) == Store(n, k, m)
PutSecretVault(n, k) == Store(n, k, master)

PutSecret(n, k) ==
  \/ provider = "default" /\ PutSecretDefault(n, k, master)
  \/ provider = "vault" /\ PutSecretVault(n, k)

DeleteSecretDefault(n) == secrets' = [secrets EXCEPT ![n] = None] /\ UNCHANGED stored
DeleteSecretVault(n) == secrets' = [secrets EXCEPT ![n] = None] /\ UNCHANGED stored

DeleteSecret(n) ==
  \/ provider = "default" /\ DeleteSecretDefault(n)
  \/ provider = "vault" /\ DeleteSecretVault(n)

----------------------------------------------------------------------------
Init ==
  /\ defaultAddr \in Names \union {""} /\ approver \in BOOLEAN
  /\ provider \in {"default", "vault", "csi"}
  /\ pc = [c \in Calls |-> "idle"] /\ offer = [c \in Calls |-> None]
  /\ ledger = << >> /\ approval = [c \in Calls |-> None]
  /\ pending = {} /\ requests = {} /\ responses = {} /\ sig = [c \in Calls |-> None]
  /\ master \in Masters
  /\ secrets \in [Names -> {None} \union {Seal(k, master) : k \in Keys}]
  /\ loaded = secrets
  /\ stored = {<<n, secrets[n].key>> : n \in {n \in Names : secrets[n] # None}}
  /\ settled = {} /\ said = {} /\ faults = 0 /\ keyOps = 0

Goto(c, label) == pc' = [pc EXCEPT ![c] = label]

\* A 402 answer: its first option becomes the intent, the policy is asked
\* and the approval threshold compared.  Without an approver a payment that
\* needs one is refused.
Intent(c, o) ==
  /\ pc[c] = "idle"
  /\ offer' = [offer EXCEPT ![c] = o]
  /\ Goto(c, IF ~Allow(o) THEN "denied"
             ELSE IF ~RequiresHumanApproval(o) THEN "allowed"
             ELSE IF approver THEN "approval" ELSE "denied")
  /\ UNCHANGED <<wiring, ledger, approval, mqttVars, walletVars, settled, said, faults>>

----------------------------------------------------------------------------
(* Approval: the row is created, then polled until a deadline.             *)

RequestApproval(c) ==
  /\ pc[c] = "approval" /\ approval[c] = None
  /\ approval' = [approval EXCEPT ![c] = "PENDING"]
  /\ UNCHANGED <<wiring, pc, offer, ledger, mqttVars, walletVars, settled, said, faults>>

\* Approve and Reject of the apiserver: they read the row only to know that
\* it exists, so a late answer overwrites an earlier or expired one.
Decide(c, status) ==
  /\ approval[c] # None /\ status \in {"APPROVED", "REJECTED"} /\ approval[c] # status
  /\ approval' = [approval EXCEPT ![c] = status]
  /\ said' = IF status = "APPROVED" THEN said \union {c} ELSE said
  /\ UNCHANGED <<wiring, pc, offer, ledger, mqttVars, walletVars, settled, faults>>

PollApproval(c) ==
  /\ pc[c] = "approval" /\ approval[c] \in {"APPROVED", "REJECTED"}
  /\ Goto(c, IF approval[c] = "APPROVED" THEN "allowed" ELSE "denied")
  /\ UNCHANGED <<wiring, offer, ledger, approval, mqttVars, walletVars, settled, said, faults>>

\* The deadline writes EXPIRED whatever the row holds by then; the end of
\* the caller's context leaves the row as it is.
ApprovalExpires(c) ==
  /\ pc[c] = "approval" /\ approval[c] # None
  /\ approval' \in {[approval EXCEPT ![c] = "EXPIRED"], approval}
  /\ Goto(c, "denied")
  /\ UNCHANGED <<wiring, offer, ledger, mqttVars, walletVars, settled, said, faults>>

----------------------------------------------------------------------------
(* Signing.                                                                *)

Sign(c) ==
  /\ pc[c] = "allowed"
  /\ pending' = pending \union {c}
  /\ requests' = requests \union {[call |-> c, wallet |-> defaultAddr, payload |-> <<c, offer[c]>>]}
  /\ Goto(c, "signing")
  /\ UNCHANGED <<wiring, offer, ledger, approval, responses, sig, walletVars, settled, said, faults>>

\* handleSignRequest; the answer goes to the topic all clients of the
\* namespace listen to.
SignResponse(m) ==
  [call |-> m.call, sig |-> IF GetSecret(m.wallet) = None THEN Refused
                            ELSE [key |-> GetSecret(m.wallet), payload |-> m.payload]]

HandleSignRequest(m) ==
  /\ m \in requests /\ requests' = requests \ {m}
  /\ responses' = responses \union {SignResponse(m)}
  /\ UNCHANGED <<wiring, pc, offer, ledger, approval, pending, sig, walletVars, settled, said, faults>>

\* The secret store cannot be read.
SignError(m) ==
  /\ m \in requests /\ requests' = requests \ {m} /\ Fault
  /\ responses' = responses \union {[call |-> m.call, sig |-> Refused]}
  /\ UNCHANGED <<wiring, pc, offer, ledger, approval, pending, sig, walletVars, settled, said>>

\* Delivered twice (QoS 1), or not at all: the wallet is down, or dies of a
\* key of the wrong length.
DuplicateRequest(m) ==
  /\ m \in requests /\ Fault
  /\ responses' = responses \union {SignResponse(m)}
  /\ UNCHANGED <<wiring, pc, offer, ledger, approval, pending, requests, sig, walletVars, settled, said>>

LoseRequest(m) ==
  /\ m \in requests /\ Fault /\ requests' = requests \ {m}
  /\ UNCHANGED <<wiring, pc, offer, ledger, approval, pending, responses, sig, walletVars, settled, said>>

LoseResponse(m) ==
  /\ m \in responses /\ Fault /\ responses' = responses \ {m}
  /\ UNCHANGED <<wiring, pc, offer, ledger, approval, pending, requests, sig, walletVars, settled, said>>

HandleResponseAny(m) ==
  /\ m \in responses /\ responses' = responses \ {m}
  /\ \E c \in pending : pending' = pending \ {c} /\ sig' = [sig EXCEPT ![c] = m.sig]
  /\ UNCHANGED <<wiring, pc, offer, ledger, approval, requests, walletVars, settled, said, faults>>

\* A response nobody waits for is dropped.
HandleResponse(m) ==
  /\ m \in responses /\ responses' = responses \ {m}
  /\ pending' = pending \ {m.call}
  /\ sig' = IF m.call \in pending THEN [sig EXCEPT ![m.call] = m.sig] ELSE sig
  /\ UNCHANGED <<wiring, pc, offer, ledger, approval, requests, walletVars, settled, said, faults>>

Signed(c) ==
  /\ pc[c] = "signing" /\ sig[c] # None
  /\ Goto(c, IF sig[c] = Refused THEN "failed" ELSE "settling")
  /\ UNCHANGED <<wiring, offer, ledger, approval, mqttVars, walletVars, settled, said, faults>>

\* The sign timeout, or the end of the caller's context.
SignGivesUp(c) ==
  /\ pc[c] = "signing"
  /\ pending' = pending \ {c} /\ Goto(c, "failed")
  /\ UNCHANGED <<wiring, offer, ledger, approval, requests, responses, sig, walletVars, settled, said, faults>>

----------------------------------------------------------------------------
(* Settlement.                                                             *)

\* The facilitator settles the payment or not (external); its answer is lost,
\* or an error, or has status 200: whether its body reports success is not
\* looked at.
Authorize(c) ==
  /\ pc[c] = "settling"
  /\ \/ settled' = settled \union {c} /\ Goto(c, "paid") /\ UNCHANGED faults
     \/ UNCHANGED settled /\ (Goto(c, "failed") \/ Goto(c, "paid")) /\ UNCHANGED faults
     \/ settled' = settled \union {c} /\ Goto(c, "failed") /\ Fault
  /\ UNCHANGED <<wiring, offer, ledger, approval, mqttVars, walletVars, said>>

Spend(w, n) ==
  ledger' = [x \in DOMAIN ledger \union {w} |-> SpentBy(x) + IF x = w THEN n ELSE 0]

\* The spend is recorded under the payer's wallet; then the request is
\* repeated with the token.
RecordSpend(c) ==
  /\ pc[c] = "paid"
  /\ Spend(defaultAddr, Amount(offer[c]))
  /\ Goto(c, "done")
  /\ UNCHANGED <<wiring, offer, approval, mqttVars, walletVars, settled, said, faults>>

----------------------------------------------------------------------------
(* Keys of the wallet.                                                     *)

KeyOp == keyOps < MaxKeyOps /\ keyOps' = keyOps + 1
KeyUnchanged == UNCHANGED <<wiring, pc, offer, ledger, approval, mqttVars, settled, said, faults>>

\* handleCreateKey and handleDeleteKey of the daemon; the CSI provider
\* refuses both.
CreateKey(n, k) == KeyOp /\ PutSecret(n, k) /\ UNCHANGED <<master, loaded>> /\ KeyUnchanged
DeleteKey(n) == KeyOp /\ DeleteSecret(n) /\ UNCHANGED <<master, loaded>> /\ KeyUnchanged

\* The console, on the daemon's database, seals with the master key it has
\* read itself; a bulk import stores wallets the same way.
CreateWalletKey(n, k, m) ==
  /\ provider = "default" /\ KeyOp /\ PutSecretDefault(n, k, m)
  /\ UNCHANGED <<master, loaded>> /\ KeyUnchanged

DeleteWalletKey(n) ==
  /\ provider = "default" /\ KeyOp /\ DeleteSecretDefault(n)
  /\ UNCHANGED <<master, loaded>> /\ KeyUnchanged

\* External: the secret manager changes the mounted file.
RotateFile(n, k) ==
  /\ provider = "csi" /\ KeyOp /\ Store(n, k, master)
  /\ UNCHANGED <<master, loaded>> /\ KeyUnchanged

LoadWalletKeys == loaded' = secrets
ResolveMasterKey(m) == master' = m

\* The daemon restarts: it reads the master key file or the mounted file.
WalletRestart(m) ==
  /\ KeyOp
  /\ IF provider = "csi" THEN LoadWalletKeys ELSE UNCHANGED loaded
  /\ IF provider = "default" THEN ResolveMasterKey(m) ELSE UNCHANGED master
  /\ UNCHANGED <<secrets, stored>> /\ KeyUnchanged

\* The TaskManager restarts: its calls end and the ledger is empty again.
Restart ==
  /\ Fault
  /\ pc' = [c \in Calls |-> IF pc[c] = "idle" THEN "idle" ELSE
                            IF pc[c] \in {"done", "denied"} THEN pc[c] ELSE "failed"]
  /\ ledger' = << >> /\ pending' = {}
  /\ UNCHANGED <<wiring, offer, approval, requests, responses, sig, walletVars, settled, said>>

Client(c) ==
  \/ RequestApproval(c) \/ PollApproval(c) \/ ApprovalExpires(c)
  \/ Sign(c) \/ Signed(c) \/ SignGivesUp(c) \/ Authorize(c) \/ RecordSpend(c)

Messages ==
  \/ \E m \in requests : HandleSignRequest(m) \/ SignError(m) \/ DuplicateRequest(m) \/ LoseRequest(m)
  \/ \E m \in responses : HandleResponse(m) \/ LoseResponse(m)

Next ==
  \/ \E c \in Calls : \/ Client(c)
                      \/ \E o \in Offers : Intent(c, o)
                      \/ \E status \in {"APPROVED", "REJECTED"} : Decide(c, status)
  \/ Messages
  \/ \E n \in Names : DeleteKey(n) \/ DeleteWalletKey(n) \/ \E k \in Keys : CreateKey(n, k) \/ RotateFile(n, k)
  \/ \E m \in Masters : WalletRestart(m) \/ \E n \in Names, k \in Keys : CreateWalletKey(n, k, m)
  \/ Restart

Spec == Init /\ [][Next]_vars

----------------------------------------------------------------------------
\* The domain that was checked is the one that is paid: the URL names its host
\* plainly, and no redirect led elsewhere.
Plain(o) == ExtractDomain(o.url) = o.server

\* Money leaves only for an offer the rules on assets and chains admit, from
\* a host the domain rules admit and of an amount within the limit of a
\* single payment, with a human's approval where that amount asks for one, on
\* a signature over that very offer with a key the client's wallet held.  Two
\* things escape the policy engine: a host reached by a redirect or behind a
\* URL whose domain extractDomain misreads, and an amount that does not parse
\* and counts as 0.  A client without a wallet never pays, as long as no key
\* is stored under the empty name: the daemon and the CSI provider refuse
\* that name, a bulk import does not.
PaymentAuthorized ==
  \A c \in settled :
    LET o == offer[c] IN
    /\ Policy.assets = {} \/ o.asset \in Policy.assets
    /\ Policy.chains = {} \/ o.chain \in Policy.chains
    /\ Plain(o) => CheckDomain(o.server)
    /\ o.parses /\ Policy.max > 0 => o.amount <= Policy.max
    /\ o.parses /\ Policy.threshold > 0 /\ o.amount >= Policy.threshold => approver /\ c \in said
    /\ <<defaultAddr, sig[c].key>> \in stored /\ sig[c].payload = <<c, o>>
    /\ "" \notin Names => defaultAddr # ""
============================================================================
