------------------------------ MODULE MCPerpBook ------------------------------
(* The instance of PerpBook for TLC: two traders and two markets, of two     *)
(* asset classes; one market's config changes and one's rate is set by hand. *)
(* Traders are interchangeable: nothing compares or orders them.             *)
EXTENDS PerpBook, TLC

CONSTANTS alice, bob, btc, eth, crypto, forex

Traders == {alice, bob}
TwoMarkets == {btc, eth}
TwoClasses == {crypto, forex}
OneEach == btc :> crypto @@ eth :> forex
LargerBtc == btc :> 2 @@ eth :> 1
Config(active, rate) == [active |-> active, reserveRate |-> rate]
BtcChanges ==
  btc :> {Config(TRUE, 1), Config(TRUE, 2), Config(FALSE, 1)} @@ eth :> {Config(TRUE, 1)}
EthReset == btc :> {} @@ eth :> {0}
AnyTrader == Permutations(Traders)
===============================================================================
