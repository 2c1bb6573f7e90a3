------------------------------- MODULE Forms --------------------------------
(***************************************************************************)
(* The bot's forms: a button remembers in Redis which form is open         *)
(* (set_state) and what it is about (update_data), and the user's next     *)
(* message is the answer.  Telegram updates of one user are served         *)
(* concurrently, so the Redis calls of two handlers interleave.  A handler *)
(* is the list of calls it still has to make.  update_data is one step: of *)
(* its read and its write only the value for its own key matters.          *)
(***************************************************************************)
EXTENDS Integers, Sequences, FiniteSets

CONSTANTS Media, Folders,  \* what the buttons are about
          Handlers,        \* updates of the user served at the same time
          MaxUpdates,      \* bound: updates that ever arrive
          FormGroups       \* bound: the forms that are used together

VARIABLES foUsed,     \* the forms in use
          foState,    \* the form that is open, or "none"
          foData,     \* [FormKeys -> what the form is about, or "none"]
          foHere,     \* the media and folders that exist
          foHandler,  \* [Handlers -> the handler]
          foOwed,     \* history: [FormNames \X FormTargets -> presses minus writes]
          foOverlaps, \* history: handlers begun beside another one
          foArrived   \* spent bound

foVars == <<foUsed, foState, foData, foHere, foHandler, foOwed, foOverlaps, foArrived>>

\* Forms by what they are about.
OnMedia == {"limit", "autodelete", "caption", "password", "thumbnail", "folder", "reject",
            "comment"}
OnSettings == {"default", "admin", "channel", "loggroup", "card", "holder", "ad"}
OnPlans == {"price", "duration", "newbot"}
FormNames == OnMedia \cup OnSettings \cup OnPlans
             \cup {"name", "rename", "gate", "topup", "broadcast", "search"}

\* Forms by the key of the data they keep.
DataKey ==
  [f \in FormNames |->
     CASE f \in OnMedia -> "media_id" [] f \in OnSettings -> "none" [] f \in OnPlans -> "plan_key"
       [] f = "name" -> "parent_id"   [] f = "rename" -> "folder_id"     [] f = "gate" -> "code"
       [] f = "topup" -> "amount"     [] f = "broadcast" -> "message_id" [] f = "search" -> "query"]
FormKeys == {DataKey[f] : f \in FormNames} \cup {"method"}
FormTargets == Media \cup Folders \cup {"root", "settings", "sum"}
FormStates == FormNames \cup {"none", "ad.text", "ad.place", "receipt", "confirming"}
NoData == [k \in FormKeys |-> "none"]
NoHandler == [todo |-> <<>>, form |-> "none", target |-> "none"]

ASSUME FormsAssumption ==
  /\ IsFiniteSet(Handlers) /\ MaxUpdates \in Nat
  /\ Media \cap Folders = {} /\ "none" \notin Media \cup Folders
  /\ FormGroups \subseteq SUBSET FormNames

FormsTypeOK ==
  /\ foUsed \in FormGroups /\ foState \in FormStates
  /\ foData \in [FormKeys -> FormTargets \cup {"none", "online", "card"}]
  /\ foHere \subseteq Media \cup Folders
  /\ foOwed \in [FormNames \X FormTargets -> Int]
  /\ foOverlaps \in Nat /\ foArrived \in 0..MaxUpdates

FormsInit ==
  /\ foUsed \in FormGroups
  /\ foState = "none" /\ foData = NoData
  /\ foHere = Media \cup Folders
  /\ foHandler = [h \in Handlers |-> NoHandler]
  /\ foOwed = [p \in FormNames \X FormTargets |-> 0]
  /\ foOverlaps = 0 /\ foArrived = 0

-----------------------------------------------------------------------------
(* The calls a handler makes, one step each. *)

SetTo(state) == [call |-> "set", on |-> state]
Remember(key) == [call |-> "put", on |-> key]
Get(key) == [call |-> "get", on |-> key]
\* FSMContext.clear is two calls, set_state(None) and set_data({}).
Close == [call |-> "close", on |-> "none"]
Forget == [call |-> "forget", on |-> "none"]
Branch == [call |-> "branch", on |-> "none"]
Write == [call |-> "write", on |-> "none"]

NextCall(h) == Head(foHandler[h].todo)
Calls(h, call) == foHandler[h].todo # <<>> /\ NextCall(h).call = call

\* h has made its call and goes on with what follows, about target.
GoesOn(h, todo, target) ==
  foHandler' = [foHandler EXCEPT ![h] =
    IF todo = <<>> THEN NoHandler ELSE [todo |-> todo, form |-> @.form, target |-> target]]
CallMade(h, target) == GoesOn(h, Tail(foHandler[h].todo), target)

SetState(h) ==
  /\ Calls(h, "set") /\ foState' = NextCall(h).on
  /\ CallMade(h, foHandler[h].target)
  /\ UNCHANGED <<foUsed, foData, foHere, foOwed, foOverlaps, foArrived>>

UpdateData(h) ==
  /\ Calls(h, "put") /\ foData' = [foData EXCEPT ![NextCall(h).on] = foHandler[h].target]
  /\ CallMade(h, foHandler[h].target)
  /\ UNCHANGED <<foUsed, foState, foHere, foOwed, foOverlaps, foArrived>>

GetData(h) ==
  /\ Calls(h, "get") /\ CallMade(h, foData[NextCall(h).on])
  /\ UNCHANGED <<foUsed, foState, foData, foHere, foOwed, foOverlaps, foArrived>>

\* Mutant: the state is left as it was.
Cleared_Not(s) == s

\* FSMContext.clear, first half: set_state(None).
Cleared(s) == "none"

ClearState(h) ==
  /\ Calls(h, "close") /\ foState' = Cleared(foState)
  /\ CallMade(h, foHandler[h].target)
  /\ UNCHANGED <<foUsed, foData, foHere, foOwed, foOverlaps, foArrived>>

\* Second half: set_data({}).
ClearData(h) ==
  /\ Calls(h, "forget") /\ foData' = NoData
  /\ CallMade(h, foHandler[h].target)
  /\ UNCHANGED <<foUsed, foState, foHere, foOwed, foOverlaps, foArrived>>

\* What the answer is written to.  A form of the settings has one object; a
\* folder without parent_id is made at the top; without its data any other
\* handler raises or returns.
WrittenTo(h) ==
  CASE foHandler[h].form \in OnSettings -> "settings"
    [] foHandler[h].form = "name" /\ foHandler[h].target = "none" -> "root"
    [] OTHER -> foHandler[h].target

\* The service's UPDATE or INSERT: nothing for a file or folder that is gone.
WriteObject(h) ==
  /\ Calls(h, "write")
  /\ LET o == WrittenTo(h)
     IN foOwed' = IF o \in foHere \cup {"root", "settings", "sum"}
                  THEN [foOwed EXCEPT ![<<foHandler[h].form, o>>] = @ - 1] ELSE foOwed
  /\ CallMade(h, foHandler[h].target)
  /\ UNCHANGED <<foUsed, foState, foData, foHere, foOverlaps, foArrived>>

-----------------------------------------------------------------------------
(* The buttons. *)

Arrives(form, target, todo) ==
  /\ foArrived < MaxUpdates /\ foArrived' = foArrived + 1
  /\ \E h \in Handlers :
       /\ foHandler[h] = NoHandler
       /\ foHandler' = [foHandler EXCEPT ![h] = [todo |-> todo, form |-> form, target |-> target]]
  /\ foOverlaps' = foOverlaps + Cardinality({h \in Handlers : foHandler[h] # NoHandler})
  /\ UNCHANGED <<foUsed, foState, foData, foHere>>

\* A button that asks for one more write to target through form.
Press(form, target, todo) ==
  /\ form \in foUsed /\ Arrives(form, target, todo)
  /\ foOwed' = [foOwed EXCEPT ![<<form, target>>] = @ + 1]

\* Most of them: the state, then what it is about.
Prompt(form, target) ==
  Press(form, target,
        IF form \in OnSettings THEN <<SetTo(form)>> ELSE <<SetTo(form), Remember(DataKey[form])>>)

\* cb_media: a button under the admin's own file.
CbMedia ==
  \E m \in Media \cap foHere,
     form \in {"limit", "autodelete", "caption", "password", "thumbnail", "folder"} :
     Prompt(form, m)
RejectPrompt == \E m \in Media \cap foHere : Prompt("reject", m)
CommentWrite == \E m \in Media : Prompt("comment", m)
\* _reply_delivery and cb_join_recheck: the file asks for its password.
PasswordPrompt == \E m \in Media \cap foHere : Prompt("gate", m)
\* folder_new: inside a folder or at the top, without a look at the folder.
FolderNew == \E d \in Folders \cup {"root"} : Prompt("name", d)
FolderRenamePrompt == \E d \in Folders : Prompt("rename", d)
\* cb_settings, "autodel".
CbSettings == Prompt("default", "settings")
AdminAddStart == Prompt("admin", "settings")
ChannelAddStart == Prompt("channel", "settings")
LogGroupStart == Prompt("loggroup", "settings")
SellCard == Prompt("card", "settings")
SellHolder == Prompt("holder", "settings")
SellPrice == Prompt("price", "settings")
SellDuration == Prompt("duration", "settings")
NewbotPickPlan == Prompt("newbot", "settings")
AdNew == Prompt("ad", "settings")

\* A search only displaces the form that was open.
SearchButton ==
  /\ "search" \in foUsed /\ Arrives("search", "none", <<SetTo("search"), Remember("query")>>)
  /\ UNCHANGED foOwed

\* topup_card and topup_online; how the money comes is part of the data.
TopupBy(method) ==
  /\ "topup" \in foUsed /\ Arrives("topup", method, <<Remember("method"), SetTo("topup")>>)
  /\ foOwed' = [foOwed EXCEPT ![<<"topup", "sum">>] = @ + 1]
TopupCard == TopupBy("card")
TopupOnline == TopupBy("online")

BroadcastStart ==
  /\ "broadcast" \in foUsed /\ Arrives("broadcast", "none", <<SetTo("broadcast")>>)
  /\ UNCHANGED foOwed

\* Commands and the reply keyboard clear whatever form is open.
MenuButton == Arrives("menu", "none", <<Close, Forget>>) /\ UNCHANGED foOwed
CmdPanel == MenuButton
TopupStart == MenuButton
BroadcastCancel == MenuButton

-----------------------------------------------------------------------------
(* The answers.  The state filter is what lets them in; an answer that does *)
(* not parse leaves the form open and is no step here.                      *)

Answer(state, form, todo) ==
  foState = state /\ Arrives(form, "none", todo) /\ UNCHANGED foOwed

\* Most of them read their data, clear the form and write.
Submit(form) == Answer(form, form, <<Get(DataKey[form]), Close, Forget, Write>>)

InputLimit == Submit("limit")
InputAutodelete == Submit("autodelete")
InputCaption == Submit("caption")
InputMediaPassword == Submit("password")
RejectReason == Submit("reject")
CommentBody == Submit("comment")
FolderNameInput == Submit("name")
FolderRenameInput == Submit("rename")
\* A button: folder_pick compares the state itself.
FolderPick == Submit("folder")
SellPriceInput == Submit("price")
SellDurationInput == Submit("duration")
NewbotReceiveToken == Submit("newbot")
\* The right password; a wrong one leaves the form open.
InputDeliveryPassword == Submit("gate")

\* The thumbnail is written before the form is cleared.
InputMediaThumbnail == Answer("thumbnail", "thumbnail", <<Get("media_id"), Write, Close, Forget>>)

\* So are a new admin and a new channel, and there is nothing to read.
AdminAddInput == Answer("admin", "admin", <<Write, Close, Forget>>)
ChannelAddInput == Answer("channel", "channel", <<Write, Close, Forget>>)

\* These clear first.
InputDefaultAutodelete == Answer("default", "default", <<Close, Forget, Write>>)
LogGroupInput == Answer("loggroup", "loggroup", <<Close, Forget, Write>>)
SellCardInput == Answer("card", "card", <<Close, Forget, Write>>)
SellHolderInput == Answer("holder", "holder", <<Close, Forget, Write>>)

AdTitleInput == Answer("ad", "ad", <<SetTo("ad.text")>>)
AdTextInput == Answer("ad.text", "ad", <<SetTo("ad.place")>>)
AdPlacementPick == Answer("ad.place", "ad", <<Close, Forget, Write>>)

\* topup_amount: what follows depends on the method it reads.
TopupAmount == Answer("topup", "topup", <<Get("method"), Branch>>)

\* Online the payment is started; by card the receipt is asked for, unless the
\* owner switched cards off meanwhile.
TopupBranch(h) ==
  /\ Calls(h, "branch")
  /\ \/ foHandler[h].target = "online" /\ GoesOn(h, <<Close, Forget, Write>>, "sum")
     \/ foHandler[h].target # "online" /\ GoesOn(h, <<Remember("amount"), SetTo("receipt")>>, "sum")
     \/ foHandler[h].target # "online" /\ GoesOn(h, <<Close, Forget>>, "none")
  /\ UNCHANGED <<foUsed, foState, foData, foHere, foOwed, foOverlaps, foArrived>>

\* Without an amount nothing is written.
TopupReceipt == Answer("receipt", "topup", <<Get("amount"), Close, Forget, Write>>)

\* The message to send is remembered: it may be confirmed once.
BroadcastCapture ==
  /\ foState = "broadcast"
  /\ Arrives("broadcast", "sum", <<Remember("message_id"), SetTo("confirming")>>)
  /\ foOwed' = [foOwed EXCEPT ![<<"broadcast", "sum">>] = @ + 1]

\* broadcast_confirm looks at the data, never at the state.
BroadcastConfirmed ==
  /\ "broadcast" \in foUsed
  /\ Arrives("broadcast", "none", <<Get("message_id"), Close, Forget, Write>>) /\ UNCHANGED foOwed

\* The file is deleted ("delok"), or a folder without subfolders is.
DeleteTarget ==
  /\ foArrived < MaxUpdates /\ foArrived' = foArrived + 1
  /\ \E x \in foHere : foHere' = foHere \ {x}
  /\ UNCHANGED <<foUsed, foState, foData, foHandler, foOwed, foOverlaps>>

-----------------------------------------------------------------------------
FormsNext ==
  \/ CbMedia \/ RejectPrompt \/ CommentWrite \/ PasswordPrompt \/ FolderNew
  \/ FolderRenamePrompt \/ CbSettings \/ AdminAddStart \/ ChannelAddStart \/ LogGroupStart
  \/ SellCard \/ SellHolder \/ SellPrice \/ SellDuration \/ NewbotPickPlan \/ AdNew
  \/ SearchButton \/ TopupCard \/ TopupOnline \/ BroadcastStart
  \/ MenuButton \/ CmdPanel \/ TopupStart \/ BroadcastCancel
  \/ InputLimit \/ InputAutodelete \/ InputCaption \/ InputMediaPassword
  \/ InputMediaThumbnail \/ InputDefaultAutodelete \/ RejectReason \/ CommentBody
  \/ FolderNameInput \/ FolderRenameInput \/ FolderPick \/ AdminAddInput
  \/ ChannelAddInput \/ LogGroupInput \/ SellCardInput \/ SellHolderInput
  \/ SellPriceInput \/ SellDurationInput \/ NewbotReceiveToken \/ InputDeliveryPassword
  \/ AdTitleInput \/ AdTextInput \/ AdPlacementPick \/ TopupAmount \/ TopupReceipt
  \/ BroadcastCapture \/ BroadcastConfirmed \/ DeleteTarget
  \/ \E h \in Handlers : SetState(h) \/ UpdateData(h) \/ GetData(h) \/ ClearState(h)
                         \/ ClearData(h) \/ WriteObject(h) \/ TopupBranch(h)

FormsSpec == FormsInit /\ [][FormsNext]_foVars

-----------------------------------------------------------------------------
\* A form does what its button was pressed for, once: the writes to an object
\* through a form (an edited file, a folder, a payment, an ad, a broadcast job)
\* never outnumber the presses of that very button, except by the number of
\* times two updates of the user were served side by side.
OneEditPerPress ==
  \A p \in FormNames \X FormTargets : foOwed[p] >= -foOverlaps
=============================================================================
