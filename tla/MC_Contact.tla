-------------------------- MODULE MC_Contact --------------------------
\* Where a user may be reached: the proof of a destination, and the delivery that only
\* uses proven ones.  The two share no variable: a behaviour is of one of them, named by
\* part, and the other stays in its initial state.
EXTENDS Delivery, TLC

CONSTANTS
    CodeUser, CodeChannels, CodeDest, NoDest, Req, MAX_CHECK_ATTEMPTS,
    MAX_SENDS_PER_DESTINATION_PER_HOUR, MAX_SENDS_PER_USER_PER_DAY, MaxCodes

VARIABLES
    part,        \* the component this behaviour is of
    code_chan, code_preferred, codes, req, proven, guesses, raced

Owned == INSTANCE Verification WITH
    User <- CodeUser, CHANNELS <- CodeChannels, Dest <- CodeDest, chan <- code_chan,
    preferred <- code_preferred

ASSUME PartsAssumption ==
    /\ Owned!LimitsAssumption

Parts == {"delivery", "code"}

code_vars ==
    <<code_chan, code_preferred, codes, req, proven, guesses, raced>>

SumInit ==
    /\ part \in Parts
    /\ DInit
    /\ Owned!Init
    /\ part # "delivery" => pro = {}

SumNext ==
    /\ UNCHANGED part
    /\ \/ /\ part = "delivery" /\ DNext
          /\ UNCHANGED code_vars
       \/ /\ part = "code" /\ Owned!Next
          /\ UNCHANGED allvars

all == <<part, allvars, code_vars>>

SumSpec == SumInit /\ [][SumNext]_all

MC_BACKOFF == <<1>>

\* The verification's requests are interchangeable, and so are the destinations of either
\* part, which are the same two addresses in the .cfg.
Symmetry == Permutations(Req) \cup Permutations(CodeDest)

-----------------------------------------------------------------------------
(***************************************************************************)
(* Properties of the instance; those of Delivery keep their names          *)
(***************************************************************************)

\* A verified destination is one whose code the user entered.
OwnershipProven == part = "code" => Owned!OwnershipProven

\* Codes are few, short-lived and guessed at a bounded number of times.
CodeLimits == part = "code" => Owned!CodeLimits
=============================================================================
