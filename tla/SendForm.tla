------------------------------ MODULE SendForm ------------------------------
(***************************************************************************)
(* frame/pages/WalletPage/SendCurrency: the form that sends the whole      *)
(* balance to an address.  With booty it sends at once, without it asks    *)
(* for a confirmation first.  The call to the worker may fail, or be       *)
(* carried out, or be carried out after its timer has given it up; nothing *)
(* in the worker keeps two of them apart.                                  *)
(***************************************************************************)
EXTENDS Naturals, Sequences

CONSTANT MaxSends  \* bound on the calls of sendEntireBalance()

\* An address that is empty, malformed or the own one is not valid.
Addresses == {"invalid", "valid"}

VARIABLES sendForm,     \* the state of the component
          bootySupport, \* the feature flag of that name
          cardBalance,  \* whether the channel holds anything
          sends,        \* sends[i]: what the worker makes of the i-th call
          awaited,      \* the calls whose promise the form still awaits
          excused       \* what the form does not guard against has happened

sendVars == <<sendForm, bootySupport, cardBalance, sends, awaited, excused>>

EmptyForm == [address |-> "invalid", addressError |-> "", balanceError |-> "",
              isAddressDirty |-> FALSE, disableSend |-> FALSE, isConfirming |-> FALSE,
              shown |-> TRUE]

SendInit == /\ sendForm = EmptyForm
            /\ bootySupport \in BOOLEAN /\ cardBalance \in BOOLEAN
            /\ sends = << >> /\ awaited = {} /\ excused = FALSE

Shows(form) == sendForm' = form

\* Only the form changes.
Edits == UNCHANGED <<bootySupport, cardBalance, sends, awaited, excused>>

------------------------------------------------------------------------------
(* What the user does *)

\* onAddressChange(); the input is disabled while the form asks for confirmation.
OnAddressChange(address) ==
  /\ sendForm.shown /\ ~sendForm.isConfirming
  /\ Shows([sendForm EXCEPT !.address = address, !.addressError = "", !.isAddressDirty = TRUE])
  /\ Edits

\* validateAddress() and validateBalance()
ValidAddress == sendForm.isAddressDirty /\ sendForm.address = "valid"
ValidBalance == cardBalance

\* Seeded fault: the button is not disabled while a call is under way.
SendKeepingTheButton(form) ==
  /\ Len(sends) < MaxSends
  /\ sends' = Append(sends, "asked")
  /\ awaited' = awaited \cup {Len(sends) + 1}
  /\ Shows(form)

\* onSendTransaction(), as far as the await.
OnSendTransaction(form) ==
  /\ Len(sends) < MaxSends
  /\ sends' = Append(sends, "asked")
  /\ awaited' = awaited \cup {Len(sends) + 1}
  /\ Shows([form EXCEPT !.disableSend = TRUE])

\* The button of the form, which is disabled while an error is shown: an error about
\* the balance can only go with the form.
CanConfirm == /\ sendForm.shown /\ ~sendForm.isConfirming
              /\ sendForm.addressError = "" /\ sendForm.balanceError = ""
              /\ ~sendForm.disableSend

Confirm ==
  /\ CanConfirm
  /\ \/ /\ ~ValidAddress
        /\ Shows([sendForm EXCEPT !.addressError = "not valid"])
        /\ UNCHANGED <<sends, awaited>>
     \/ /\ ValidAddress /\ ~ValidBalance
        /\ Shows([sendForm EXCEPT !.balanceError = "not valid"])
        /\ UNCHANGED <<sends, awaited>>
     \/ /\ ValidAddress /\ ValidBalance /\ bootySupport
        /\ OnSendTransaction(sendForm)
     \/ /\ ValidAddress /\ ValidBalance /\ ~bootySupport
        /\ Shows([sendForm EXCEPT !.isConfirming = TRUE])
        /\ UNCHANGED <<sends, awaited>>
  /\ UNCHANGED <<bootySupport, cardBalance, excused>>

\* The Confirm button is never disabled, and may be clicked again.
ConfirmAgain == /\ sendForm.shown /\ sendForm.isConfirming
                /\ OnSendTransaction(sendForm)
                /\ excused' = (excused \/ awaited # {})
                /\ UNCHANGED <<bootySupport, cardBalance>>

Cancel == /\ sendForm.shown /\ sendForm.isConfirming
          /\ Shows([sendForm EXCEPT !.isConfirming = FALSE])
          /\ Edits

\* Another page is shown, and then this one: a new form, which awaits nothing.
Leave == /\ sendForm.shown
         /\ Shows([sendForm EXCEPT !.shown = FALSE])
         /\ awaited' = {}
         /\ excused' = (excused \/ awaited # {})
         /\ UNCHANGED <<bootySupport, cardBalance, sends>>
Return == /\ ~sendForm.shown
          /\ Shows(EmptyForm)
          /\ Edits

------------------------------------------------------------------------------
(* The worker *)

\* sendEntireBalance() ends, well or with an error; one that ends well leaves nothing.
Transfer(i) == /\ sends[i] = "asked"
               /\ \/ /\ sends' = [sends EXCEPT ![i] = "sent"]
                     /\ cardBalance' = FALSE
                  \/ /\ sends' = [sends EXCEPT ![i] = "failed"]
                     /\ UNCHANGED cardBalance
               /\ UNCHANGED <<sendForm, bootySupport, awaited, excused>>

\* A broadcast brings another balance, or other feature flags.
HearFlags == /\ bootySupport' \in BOOLEAN
             /\ cardBalance' \in BOOLEAN
             /\ UNCHANGED <<sendForm, sends, awaited, excused>>

------------------------------------------------------------------------------
(* The rest of onSendTransaction() *)

Stops(i) == i \in awaited /\ awaited' = awaited \ {i}

AfterFailure == [sendForm EXCEPT !.balanceError = "failed", !.disableSend = FALSE,
                                 !.isConfirming = FALSE]

\* isConfirming stays as it is, and the page changes to the activity.
Succeeds(i) == /\ Stops(i)
               /\ sends[i] = "sent"
               /\ Shows([EmptyForm EXCEPT !.isConfirming = sendForm.isConfirming,
                                          !.shown = FALSE])
               /\ UNCHANGED <<bootySupport, cardBalance, sends, excused>>

Fails(i) == /\ Stops(i)
            /\ sends[i] = "failed"
            /\ Shows(AfterFailure)
            /\ UNCHANGED <<bootySupport, cardBalance, sends, excused>>

\* The timer of the call rejects its promise, whatever the worker does.
TimesOut(i) == /\ Stops(i)
               /\ Shows(AfterFailure)
               /\ excused' = TRUE
               /\ UNCHANGED <<bootySupport, cardBalance, sends>>

------------------------------------------------------------------------------
SendNext == \/ \E address \in Addresses : OnAddressChange(address)
            \/ Confirm
            \/ ConfirmAgain
            \/ Cancel
            \/ Leave
            \/ Return
            \/ HearFlags
            \/ \E i \in DOMAIN sends : Transfer(i) \/ Succeeds(i) \/ Fails(i) \/ TimesOut(i)

------------------------------------------------------------------------------
(* Properties *)

SendTypeOK == /\ sendForm.address \in Addresses
              /\ sendForm.addressError \in {"", "not valid"}
              /\ sendForm.balanceError \in {"", "not valid", "failed"}
              /\ bootySupport \in BOOLEAN /\ cardBalance \in BOOLEAN
              /\ sends \in Seq({"asked", "sent", "failed"})
              /\ awaited \subseteq DOMAIN sends
              /\ excused \in BOOLEAN

\* "Failed to send Ether. Please try again." is shown only when no transfer is under
\* way that may still empty the wallet, unless the user clicked Confirm twice or left
\* the page during a call, or a call timed out.
FailureIsFinal == sendForm.balanceError = "failed" /\ sendForm.shown /\ ~excused
                        => \A i \in DOMAIN sends : sends[i] # "asked"
=============================================================================
