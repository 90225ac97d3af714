------------------------------ MODULE TokenPins ------------------------------
(***************************************************************************)
(* The token of a slot (score/cryptoki/pkcs11/token.rs): its state, its    *)
(* PINs and their failure counters.  A PIN stands for its hash; ShortPin   *)
(* is outside the permitted lengths.  An operation is the token it leaves  *)
(* and whether it succeeded.  The label, the serial number and the flags   *)
(* derived from the token for C_GetTokenInfo are left out.                 *)
(***************************************************************************)
EXTENDS Naturals

CONSTANTS
    Pins, ShortPin,
    FactorySoPin, FactoryUserPin,  \* "so-pin" and "1234"
    MaxPinFailures                 \* MAX_PIN_FAILURES

NoPin == "NoPin"

ASSUME PinsOK ==
    /\ {ShortPin, FactorySoPin, FactoryUserPin} \subseteq Pins
    /\ ShortPin \notin {FactorySoPin, FactoryUserPin}
    /\ NoPin \notin Pins
    /\ MaxPinFailures \in Nat \ {0}

PinResult(ok, tok) == [ok |-> ok, tok |-> tok]

LengthOK(pin) == pin # ShortPin

\* Token::new_default: usable before C_InitToken was ever called.
NewDefaultToken ==
    [state |-> "ReadWrite", soPin |-> FactorySoPin, userPin |-> FactoryUserPin,
     soFailures |-> 0, userFailures |-> 0]

Initialized(tok) == tok.state # "Reset"

\* A token that is initialized takes its own SO PIN, or any while it has the factory one.
InitToken(tok, pin) ==
    IF /\ LengthOK(pin)
       /\ (Initialized(tok) /\ tok.soPin # NoPin) => tok.soPin \in {pin, FactorySoPin}
    THEN PinResult(TRUE, [state |-> "ReadWrite", soPin |-> pin, userPin |-> NoPin,
                          soFailures |-> 0, userFailures |-> 0])
    ELSE PinResult(FALSE, tok)

InitPin(tok, pin) ==
    IF Initialized(tok) /\ LengthOK(pin)
    THEN PinResult(TRUE, [tok EXCEPT !.userPin = pin, !.userFailures = 0])
    ELSE PinResult(FALSE, tok)

SetPin(tok, user, pin) ==
    IF ~LengthOK(pin) THEN PinResult(FALSE, tok)
    ELSE IF user = "SO"
         THEN PinResult(TRUE, [tok EXCEPT !.soPin = pin, !.soFailures = 0])
         ELSE PinResult(TRUE, [tok EXCEPT !.userPin = pin, !.userFailures = 0])

VerifySoPin_AlsoWhenLocked(tok, pin) ==
    IF tok.soPin = pin THEN PinResult(TRUE, [tok EXCEPT !.soFailures = 0])
    ELSE PinResult(FALSE,
           [tok EXCEPT !.soFailures = @ + 1,
                       !.state = IF tok.soFailures + 1 >= MaxPinFailures THEN "ReadOnly" ELSE @])

\* The last permitted failure makes the token read-only, which locks the SO PIN.
VerifySoPin(tok, pin) ==
    IF tok.state = "ReadOnly" THEN PinResult(FALSE, tok)
    ELSE IF tok.soPin = pin THEN PinResult(TRUE, [tok EXCEPT !.soFailures = 0])
    ELSE PinResult(FALSE,
           [tok EXCEPT !.soFailures = @ + 1,
                       !.state = IF tok.soFailures + 1 >= MaxPinFailures THEN "ReadOnly" ELSE @])

VerifyUserPin(tok, pin) ==
    IF tok.userFailures >= MaxPinFailures THEN PinResult(FALSE, tok)
    ELSE IF tok.userPin = pin THEN PinResult(TRUE, [tok EXCEPT !.userFailures = 0])
    ELSE PinResult(FALSE, [tok EXCEPT !.userFailures = @ + 1])

VerifyPin(tok, user, pin) ==
    IF user = "SO" THEN VerifySoPin(tok, pin) ELSE VerifyUserPin(tok, pin)

\* verify_user_pin_no_lockout: the failure counters are left alone.
VerifyUserPinNoLockout(tok, pin) == tok.userPin = pin

\* C_SetPIN under the token's lock: a user PIN that already is the new one will do,
\* so that a change can be repeated; each PIN that is tried and wrong counts.
ChangePin(tok, user, old, new) ==
    LET first  == VerifyPin(tok, user, old)
        second == VerifyPin(first.tok, user, new)
    IN IF first.ok THEN SetPin(first.tok, user, new)
       ELSE IF user = "SO" THEN first
       ELSE IF second.ok THEN SetPin(second.tok, user, new)
       ELSE second
=============================================================================
