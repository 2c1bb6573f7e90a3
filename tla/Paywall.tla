------------------------------ MODULE Paywall ------------------------------
(***************************************************************************)
(* Paid files: the media rows, the unlock rows (media_purchases) and the   *)
(* purchase of a file from the wallet (PaywallService.purchase, called by  *)
(* the buy button).  The button's session loaded the user and the file     *)
(* when the update arrived; two things fold a double tap: a Redis key that *)
(* may be missing, and the unique constraint on (file, user).              *)
(***************************************************************************)
EXTENDS Wallet

CONSTANTS Files,      \* rows of the media table
          FileOwner,  \* [Files -> Users or Nobody]: owner_user_id
          Customers,  \* the users who open and buy files
          Nobody,     \* owner_user_id is NULL
          Prices,     \* the prices a file may have, 0 for a free one
          Limits,     \* the download limits a file may have
          NoLimit,    \* download_limit is NULL
          RedisDown   \* whether Redis may not answer

ASSUME FileOwnerAssumption == FileOwner \in [Files -> Users \cup {Nobody}] /\ Nobody \notin Users
ASSUME CustomersAssumption == Customers \subseteq Users
ASSUME PricesAssumption == Prices \subseteq Amounts \cup {0}
ASSUME LimitsAssumption == Limits \subseteq Nat \cup {NoLimit}
ASSUME NoLimitAssumption == NoLimit \notin Nat
ASSUME RedisDownAssumption == RedisDown \in BOOLEAN

VARIABLES file,      \* [Files -> FileRow]: the committed media rows
          entitled,  \* the (user, file) pairs with a media_purchases row
          tapKey,    \* the (user, file) pairs whose Redis purchase key is set
          charges,   \* history: committed debits of each (user, file)
          job        \* [Sessions -> the update being served]

shopVars == <<file, entitled, tapKey, charges, job>>

\* gone: the row was deleted.  plus: required_plan is set.
FileRow == [count : Nat, limit : Nat \cup {NoLimit}, status : {"approved", "rejected", "gone"},
            active : BOOLEAN, password : BOOLEAN, plus : BOOLEAN, price : Nat]

\* An update at work: row is the file in the session's identity map (once it
\* read it), verified that the typed password was right, fresh that its claim
\* is newer than the last reset of the counter.
Unread == [status |-> "unread"]
Job == [at : {"arrived", "checked", "claiming", "sending", "logging", "counting", "releasing",
              "buying", "unowned", "locked", "debited", "paid"},
        user : Users, file : Files, row : FileRow \cup {Unread},
        verified : BOOLEAN, fresh : BOOLEAN]
NoJob == [at |-> "idle"]

ShopTypeOK ==
  /\ WalletTypeOK
  /\ file \in [Files -> FileRow]
  /\ entitled \subseteq Users \X Files
  /\ tapKey \subseteq Users \X Files
  /\ charges \in [Users \X Files -> Nat]
  /\ job \in [Sessions -> Job \cup {NoJob}]

ShopInit ==
  /\ WalletInit
  /\ \E p \in Prices, l \in Limits :
       file = [m \in Files |-> [count |-> 0, limit |-> l, status |-> "approved", active |-> TRUE,
                                password |-> FALSE, plus |-> FALSE, price |-> p]]
  /\ entitled = {}
  /\ tapKey = {}
  /\ charges = [x \in Users \X Files |-> 0]
  /\ job = [s \in Sessions |-> NoJob]

Want(s) == <<job[s].user, job[s].file>>

JobAt(s, stage) == job' = [job EXCEPT ![s].at = stage]

\* The update is over: answered, failed with an exception, or dead.
EndJob(s) ==
  /\ job' = [job EXCEPT ![s] = NoJob]
  /\ EndSession(s)

-----------------------------------------------------------------------------
\* The buy button (cb_buy_media): the update has loaded the user and the file.
BuyMedia(s, u, m) ==
  /\ job[s] = NoJob
  /\ s \in Preloading
  /\ file[m].status # "gone"
  /\ Len(ledger[u]) < MaxRows
  /\ LoadUser(s, u)
  /\ job' = [job EXCEPT ![s] = [at |-> "buying", user |-> u, file |-> m, row |-> file[m],
                                verified |-> FALSE, fresh |-> TRUE]]
  /\ UNCHANGED <<file, entitled, tapKey, charges>>

\* NOT_FOR_SALE: the price the session loaded is zero.
BuyNotForSale(s) ==
  /\ job[s].at = "buying"
  /\ job[s].row.price = 0
  /\ EndJob(s)
  /\ UNCHANGED <<file, entitled, tapKey, charges>>

\* has_entitlement: ALREADY when there is an unlock row, and the handler goes
\* on to deliver.
BuyCheck(s) ==
  /\ job[s].at = "buying"
  /\ job[s].row.price > 0
  /\ JobAt(s, IF Want(s) \in entitled THEN "arrived" ELSE "unowned")
  /\ UNCHANGED <<walletVars, file, entitled, tapKey, charges>>

\* SET NX found the key of another tap: ALREADY as well.
BuyFolded(s) ==
  /\ job[s].at = "unowned"
  /\ Want(s) \in tapKey
  /\ JobAt(s, "arrived")
  /\ UNCHANGED <<walletVars, file, entitled, tapKey, charges>>

\* SET NX took the key, or Redis did not answer and the purchase goes on.
BuyKey(s) ==
  /\ job[s].at = "unowned"
  /\ \/ Want(s) \notin tapKey /\ tapKey' = tapKey \cup {Want(s)}
     \/ RedisDown /\ UNCHANGED tapKey
  /\ JobAt(s, "locked")
  /\ UNCHANGED <<walletVars, file, entitled, charges>>

\* debit_nocommit: the user's row lock is held from here.
BuyFileDebit(s) ==
  /\ job[s].at = "locked"
  /\ ApplyNoCommit(s, job[s].user, -job[s].row.price)
  /\ JobAt(s, "debited")
  /\ UNCHANGED <<file, entitled, tapKey, charges>>

\* INSUFFICIENT: rolled back and the key deleted.
BuyFileRefused(s) ==
  /\ job[s].at = "locked"
  /\ Refuse(s, job[s].user, -job[s].row.price)
  /\ tapKey' = tapKey \ {Want(s)}
  /\ job' = [job EXCEPT ![s] = NoJob]
  /\ UNCHANGED <<file, entitled, charges>>

\* The unlock row may be inserted: none is there, and the file still is.
MayUnlock_NoUnique(s) == TRUE \* mutant: no unique constraint
MayUnlock(s) == Want(s) \notin entitled /\ file[job[s].file].status # "gone"

\* Debit and unlock row commit together; the key stays as a debounce.
BuyFileCommit(s) ==
  /\ job[s].at = "debited"
  /\ MayUnlock(s)
  /\ CommitWrite(s)
  /\ entitled' = entitled \cup {Want(s)}
  /\ charges' = [charges EXCEPT ![Want(s)] = @ + 1]
  /\ JobAt(s, "paid")
  /\ UNCHANGED <<file, tapKey>>

\* IntegrityError (or any other exception): everything is rolled back and the
\* key deleted, whoever set it.  The rollback expired the file, so the handler
\* that goes on to read its code dies there: nothing is delivered.
BuyFileFails(s) ==
  /\ job[s].at = "debited"
  /\ ~ MayUnlock(s)
  /\ tapKey' = tapKey \ {Want(s)}
  /\ EndJob(s)
  /\ UNCHANGED <<file, entitled, charges>>

\* The receipt is recorded, best effort, and the handler goes on to deliver.
BuyFileReceipt(s) ==
  /\ job[s].at = "paid"
  /\ JobAt(s, "arrived")
  /\ UNCHANGED <<walletVars, file, entitled, tapKey, charges>>

\* The ten seconds of the key are over, whatever became of the purchase.
TapKeyExpires(u, m) ==
  /\ <<u, m>> \in tapKey
  /\ tapKey' = tapKey \ {<<u, m>>}
  /\ UNCHANGED <<walletVars, file, entitled, charges, job>>

\* Money arrives through a session that serves no update.
ShopTopUp(s, u) ==
  /\ job[s] = NoJob
  /\ Credit(s, u)
  /\ UNCHANGED shopVars

ShopTopUpCommit(s) ==
  /\ job[s] = NoJob
  /\ CommitWrite(s)
  /\ UNCHANGED shopVars

BuyStep(s) ==
  \/ BuyNotForSale(s) \/ BuyCheck(s) \/ BuyFolded(s) \/ BuyKey(s) \/ BuyFileDebit(s)
  \/ BuyFileRefused(s) \/ BuyFileCommit(s) \/ BuyFileFails(s) \/ BuyFileReceipt(s)

-----------------------------------------------------------------------------
\* A user is charged for a file at most once, and exactly once if the file is
\* unlocked: with double taps, keys that expire or belong to another tap, a
\* Redis that is down, refusals, and crashes between any two steps.
ChargedOnce ==
  \A x \in Users \X Files :
     /\ charges[x] <= 1
     /\ x \in entitled => charges[x] = 1
=============================================================================
