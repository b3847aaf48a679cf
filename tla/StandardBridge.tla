---------------------------- MODULE StandardBridge ----------------------------
(***************************************************************************)
(* The token bridge: L1StandardBridge.sol locks what is deposited and       *)
(* L2StandardBridge.sol mints it; a withdrawal burns on L2 and releases on  *)
(* L1.  The two talk through the cross domain messengers, each direction of *)
(* which is a MessageChannel.  One L2 chain id.                             *)
(*                                                                         *)
(* A deposit of METIS always goes to MVM_Coinbase and one of Ether to       *)
(* OVM_ETH; of any other token, to the L2 token the depositor names, which  *)
(* may be the wrong one, or not be an L2StandardERC20 at all.               *)
(***************************************************************************)
EXTENDS Naturals, Sequences, FiniteSetsExt

CONSTANTS
    Ether, Metis,         \* what L1 has besides the other ERC20 tokens
    ERC20,                \* the L1 tokens, Metis among them
    ZeroAddress,          \* address(0)
    OVM_ETH, Coinbase,    \* the L2 tokens of Ether and of Metis
    StandardToken,        \* the L2StandardERC20 tokens, these two among them
    ForeignToken,         \* other contracts at which an L2 token is named
    l1TokenOf,            \* l1Token of the standard tokens
    MaxAmount,            \* bound on an amount
    MaxDeposits,          \* bound on the deposits
    MaxWithdrawals        \* bound on the withdrawals

L2Token == StandardToken \cup ForeignToken
L1Asset == ERC20 \cup {Ether}

ASSUME BridgeAssumption ==
    /\ Metis \in ERC20 /\ Ether \notin ERC20 /\ ZeroAddress \notin L1Asset
    /\ {OVM_ETH, Coinbase} \subseteq StandardToken /\ OVM_ETH # Coinbase
    /\ StandardToken \cap ForeignToken = {} /\ IsFiniteSet(L2Token)
    /\ l1TokenOf \in [StandardToken -> ERC20 \cup {ZeroAddress}]
    /\ \A t \in StandardToken : l1TokenOf[t] = ZeroAddress <=> t \in {OVM_ETH, Coinbase}
    /\ {MaxAmount, MaxDeposits, MaxWithdrawals} \subseteq Nat

VARIABLES
    balance,       \* what the L1 bridge holds of each asset
    deposits,      \* deposits of the L1 bridge, by L1 and L2 token
    supply,        \* totalSupply of the standard tokens
    toL2, atL2,    \* the channel of finalizeDeposit calls: sent and delivered
    toL1, atL1,    \* the channel of withdrawal calls: sent and delivered
    failed         \* the DepositFailed events of the L2 bridge

vars == <<balance, deposits, supply, toL2, atL2, toL1, atL1, failed>>

ToL2 == INSTANCE MessageChannel WITH sent <- toL2, delivered <- atL2
ToL1 == INSTANCE MessageChannel WITH sent <- toL1, delivered <- atL1

Amounts == 1..MaxAmount

Messages == [nonce : Nat, l1Token : L1Asset \cup {ZeroAddress}, l2Token : L2Token, amount : Amounts]

TypeOK ==
    /\ balance \in [L1Asset -> Nat]
    /\ deposits \in [ERC20 \X L2Token -> Nat]
    /\ supply \in [StandardToken -> Nat]
    /\ {toL2, atL2, toL1, atL1} \subseteq Seq(Messages)
    /\ failed \subseteq Messages

\* What an L2 token answers for l1Token: a foreign one, anything.
l1Token(l2) == IF l2 \in StandardToken THEN {l1TokenOf[l2]} ELSE ERC20 \cup {ZeroAddress}

Init ==
    /\ balance = [a \in L1Asset |-> 0]
    /\ deposits = [p \in ERC20 \X L2Token |-> 0]
    /\ supply = [t \in StandardToken |-> 0]
    /\ toL2 = <<>> /\ atL2 = <<>> /\ toL1 = <<>> /\ atL1 = <<>>
    /\ failed = {}

-----------------------------------------------------------------------------
(* Deposits.  The fee, which pays for L2 gas, is not part of the amount.    *)

SendDeposit(l1, l2, amount) ==
    /\ Len(toL2) < MaxDeposits
    /\ ToL2!Send([nonce |-> Len(toL2), l1Token |-> l1, l2Token |-> l2, amount |-> amount])

\* _initiateETHDepositByChainId
DepositETH(amount) ==
    /\ balance' = [balance EXCEPT ![Ether] = @ + amount]
    /\ SendDeposit(ZeroAddress, OVM_ETH, amount)
    /\ UNCHANGED <<deposits, supply, toL1, atL1, failed>>

\* Mutant: credits the pair the depositor named, also for METIS.
DepositERC20_NamedPair(l1, l2, amount) ==
    /\ balance' = [balance EXCEPT ![l1] = @ + amount]
    /\ \/ l1 = Metis /\ SendDeposit(ZeroAddress, Coinbase, amount)
       \/ l1 # Metis /\ SendDeposit(l1, l2, amount)
    /\ deposits' = [deposits EXCEPT ![<<l1, l2>>] = @ + amount]
    /\ UNCHANGED <<supply, toL1, atL1, failed>>

\* _initiateERC20DepositByChainId: the L2 token of METIS is the coinbase,
\* whichever the depositor named.
DepositERC20(l1, l2, amount) ==
    LET pair == IF l1 = Metis THEN <<l1, Coinbase>> ELSE <<l1, l2>>
    IN  /\ balance' = [balance EXCEPT ![l1] = @ + amount]
        /\ \/ l1 = Metis /\ SendDeposit(ZeroAddress, Coinbase, amount)
           \/ l1 # Metis /\ SendDeposit(l1, l2, amount)
        /\ deposits' = [deposits EXCEPT ![pair] = @ + amount]
        /\ UNCHANGED <<supply, toL1, atL1, failed>>

\* finalizeDeposit.  A foreign token may support the interface and be minted
\* from, or not; its supply is its own affair.
FinalizeDeposit(m) ==
    /\ ToL2!Deliver(m)
    /\ \/ /\ m.l1Token \in l1Token(m.l2Token)
          /\ supply' = IF m.l2Token \in StandardToken
                       THEN [supply EXCEPT ![m.l2Token] = @ + m.amount] ELSE supply
          /\ UNCHANGED failed
       \/ /\ m.l2Token \in StandardToken => m.l1Token # l1TokenOf[m.l2Token]
          /\ failed' = failed \cup {m}
          /\ UNCHANGED supply
    /\ UNCHANGED <<balance, deposits, toL1, atL1>>

-----------------------------------------------------------------------------
(* Withdrawals.                                                             *)

\* _initiateWithdrawal: burns, then asks the token for its l1Token.
Withdraw(l2, amount) ==
    /\ Len(toL1) < MaxWithdrawals
    /\ \/ /\ l2 \in StandardToken /\ supply[l2] >= amount
          /\ supply' = [supply EXCEPT ![l2] = @ - amount]
       \/ /\ l2 \in ForeignToken
          /\ UNCHANGED supply
    /\ \E l1 \in l1Token(l2) :
          ToL1!Send([nonce |-> Len(toL1), l2Token |-> l2, amount |-> amount,
                     l1Token |-> CASE l2 = OVM_ETH -> Ether
                                   [] l2 = Coinbase -> Metis
                                   [] OTHER -> l1])
    /\ UNCHANGED <<balance, deposits, toL2, atL2, failed>>

\* Mutant: counts what was deposited by L1 token alone.
PayERC20_AnyPair(m) ==
    /\ m.l1Token \in ERC20 /\ balance[m.l1Token] >= m.amount
    /\ balance' = [balance EXCEPT ![m.l1Token] = @ - m.amount]
    /\ deposits' = [deposits EXCEPT ![<<m.l1Token, m.l2Token>>] =
                        IF @ >= m.amount THEN @ - m.amount ELSE 0]

\* _finalizeERC20WithdrawalByChainId: the subtraction is checked, and a call of
\* the zero address fails.
PayERC20(m) ==
    /\ m.l1Token \in ERC20 /\ deposits[<<m.l1Token, m.l2Token>>] >= m.amount
    /\ deposits' = [deposits EXCEPT ![<<m.l1Token, m.l2Token>>] = @ - m.amount]
    /\ balance[m.l1Token] >= m.amount
    /\ balance' = [balance EXCEPT ![m.l1Token] = @ - m.amount]

\* finalizeETHWithdrawalByChainId
PayETH(m) ==
    /\ m.l1Token = Ether /\ balance[Ether] >= m.amount
    /\ balance' = [balance EXCEPT ![Ether] = @ - m.amount]
    /\ UNCHANGED deposits

\* A relayed withdrawal whose call succeeds; one that fails changes nothing
\* and may be relayed again.
FinalizeWithdrawal(m) ==
    /\ ToL1!Deliver(m)
    /\ PayERC20(m) \/ PayETH(m)
    /\ UNCHANGED <<supply, toL2, atL2, failed>>

Next ==
    \/ \E amount \in Amounts : DepositETH(amount)
    \/ \E l1 \in ERC20, l2 \in L2Token, amount \in Amounts : DepositERC20(l1, l2, amount)
    \/ \E m \in ToL2!Elements(toL2) : FinalizeDeposit(m)
    \/ \E l2 \in L2Token, amount \in Amounts : Withdraw(l2, amount)
    \/ \E m \in ToL1!Elements(toL1) : FinalizeWithdrawal(m)

Spec == Init /\ [][Next]_vars

-----------------------------------------------------------------------------

\* The amounts under way: deposits that will mint, and withdrawals.
Total(ms) == MapThenSumSet(LAMBDA m : m.amount, ms)
Minting(l2) == {m \in ToL2!Elements(toL2) \ ToL2!Elements(atL2) :
                    m.l2Token = l2 /\ m.l1Token = l1TokenOf[l2]}
Leaving(l2) == {m \in ToL1!Elements(toL1) \ ToL1!Elements(atL1) : m.l2Token = l2}

Locked(l2) == CASE l2 = OVM_ETH -> balance[Ether]
                [] l2 = Coinbase -> deposits[<<Metis, Coinbase>>]
                [] OTHER -> deposits[<<l1TokenOf[l2], l2>>]

(* What L1 keeps for a standard token is what L2 has of it and what is under *)
(* way between the two, in whatever order messages are delivered, whatever   *)
(* tokens depositors name and foreign tokens answer: so every withdrawal of  *)
(* a standard token finds its funds on L1.                                   *)
Conservation ==
    \A l2 \in StandardToken :
        Locked(l2) = supply[l2] + Total(Minting(l2)) + Total(Leaving(l2))

(* The bridge holds of each ERC20 what it has counted for all L2 tokens      *)
(* together, and no pair is overdrawn, so that none is paid from the funds   *)
(* of another.                                                               *)
BalanceIsDeposits ==
    /\ \A pair \in ERC20 \X L2Token : deposits[pair] >= 0
    /\ \A l1 \in ERC20 : balance[l1] = MapThenSumSet(LAMBDA l2 : deposits[<<l1, l2>>], L2Token)

(* L2StandardBridge.spec.ts, of finalizeDeposit: "should initialize a        *)
(* withdrawal if the L2 token is not compliant".  A deposit into a wrong L2  *)
(* token comes back as a withdrawal.  The code does not do so: see README.   *)
FailedDepositReturns ==
    \A m \in failed : \E w \in ToL1!Elements(toL1) :
        w.l1Token = m.l1Token /\ w.l2Token = m.l2Token /\ w.amount = m.amount
=============================================================================
