------------------------------- MODULE MintFacts -------------------------------
(***************************************************************************)
(* Layer 0: from the bytes of a mint account to its verdict                *)
(* (src/rpc/mint.js, src/safety/token2022-tlv.js, token2022.js,            *)
(* layer0-facts.js, layer0-mint.js).  Pure: one account in, one outcome    *)
(* out.                                                                    *)
(*                                                                         *)
(* An account is what the node returned: whether it exists, its owner      *)
(* program, whether it unpacks as a mint, its two authorities, and its TLV *)
(* entries in storage order.  An entry has a code and says whether its     *)
(* bytes are all stored; fee and default-state entries carry their fields. *)
(***************************************************************************)
EXTENDS Answers, Integers, Sequences

CONSTANTS
    AllowedExtensions, \* SAFETY.layer0.allowedExtensions
    ZeroKey            \* the all-zero address, "no authority"

\* unpackMint and getExtensionTypes are the library's: `unpacks' and `torn' say
\* whether they throw.  The codes whose struct the code decodes:
Decoded == {"transferFeeConfig", "defaultAccountState", "transferHook",
            "permanentDelegate"}

BpsPerWhole == 10000
MaxTransferFeeBps == 0

addressOrNull(key) == IF key = ZeroKey THEN None ELSE key

-----------------------------------------------------------------------------
(* TLV entries *)
At(acc, code) == {i \in DOMAIN acc.tlv : acc.tlv[i].code = code}

\* Like the library, the first entry of a code is the one that is read.
First(acc, code) ==
    acc.tlv[CHOOSE i \in At(acc, code) : \A j \in At(acc, code) : i <= j]

\* Present but cut short is refused: short bytes would decode as zeros.
Legible(acc, code) == At(acc, code) = {} \/ First(acc, code).whole

\* Padding is no extension; everything else is, duplicates and unknown codes too.
enumerateExtensions(acc) ==
    {acc.tlv[i].code : i \in DOMAIN acc.tlv} \ {"uninitialized"}

disallowedExtensions(names) == names \ AllowedExtensions

NoFee == [present |-> FALSE, maxFeeBpsEver |-> None]

\* Both schedules count: the one in force today proves nothing about the next.
inspectTransferFee(acc) ==
    IF At(acc, "transferFeeConfig") = {} THEN NoFee
    ELSE LET fee == First(acc, "transferFeeConfig")
         IN [present |-> TRUE,
             maxFeeBpsEver |-> IF fee.older > fee.newer THEN fee.older ELSE fee.newer]

FeeInRange(acc) ==
    At(acc, "transferFeeConfig") = {}
    \/ LET fee == First(acc, "transferFeeConfig")
       IN fee.older \in 0..BpsPerWhole /\ fee.newer \in 0..BpsPerWhole

AccountStates == {"uninitialized", "initialized", "frozen"}

\* An unknown state code is refused, not reported as "not frozen".
StateKnown(acc) ==
    At(acc, "defaultAccountState") = {}
    \/ First(acc, "defaultAccountState").state \in AccountStates

inspectDefaultAccountState(acc) ==
    [frozen |-> /\ At(acc, "defaultAccountState") # {}
                /\ First(acc, "defaultAccountState").state = "frozen"]

Presence(acc, code) == [present |-> At(acc, code) # {}]

-----------------------------------------------------------------------------
(* fetchMintFacts *)
TokenPrograms == {"spl-token", "token-2022"}

readAccountEnvelope(acc) == acc.exists

Unpacks(acc) == acc.owner \in TokenPrograms /\ acc.unpacks

\* An extension that cannot be read is the dangerous case, so it throws.
Inspectable(acc) ==
    /\ ~ acc.torn
    /\ \A code \in Decoded : Legible(acc, code)
    /\ FeeInRange(acc) /\ StateKnown(acc)

fetchMintFacts(acc) ==
    IF acc = Failed THEN Failed
    ELSE IF ~ (readAccountEnvelope(acc) /\ Unpacks(acc) /\ Inspectable(acc)) THEN Failed
    ELSE [isInitialized |-> acc.initialized,
          mintAuthority |-> addressOrNull(acc.mintAuthority),
          freezeAuthority |-> addressOrNull(acc.freezeAuthority),
          extensions |-> enumerateExtensions(acc),
          transferFee |-> inspectTransferFee(acc),
          defaultAccountState |-> inspectDefaultAccountState(acc),
          transferHook |-> Presence(acc, "transferHook"),
          permanentDelegate |-> Presence(acc, "permanentDelegate")]

-----------------------------------------------------------------------------
(* layer 0 *)

\* readMintFacts: an unreadable fee is not a zero fee.
FactsReadable(facts) ==
    facts.transferFee.present => facts.transferFee.maxFeeBpsEver # None

authorityReasons(facts) ==
    {reason \in {"mintAuthority", "freezeAuthority"} : facts[reason] # None}

transferFeeReasons(fee) ==
    {reason \in {"transferFee"} : fee.present /\ fee.maxFeeBpsEver > MaxTransferFeeBps}

defaultAccountStateReasons(facts) ==
    {reason \in {"frozen"} : facts.defaultAccountState.frozen}

initialisationReasons(facts) == {reason \in {"uninitialized"} : ~ facts.isInitialized}

\* Every applicable reason, not the first.
evaluateMintFacts(facts) ==
    authorityReasons(facts)
      \cup disallowedExtensions(facts.extensions)
      \cup transferFeeReasons(facts.transferFee)
      \cup defaultAccountStateReasons(facts)
      \cup initialisationReasons(facts)

checkMint(acc) ==
    LET facts == fetchMintFacts(acc)
    IN IF facts = Failed THEN "ERROR"
       ELSE IF ~ FactsReadable(facts) THEN "ERROR"
       ELSE ByReasons(evaluateMintFacts(facts))
=============================================================================
