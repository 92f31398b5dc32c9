-------------------------- MODULE MCLiquidityOrders --------------------------
(* Instances of LiquidityOrders for TLC: a provider and an executor who      *)
(* provides too, orders that leave a token, HLP or native token.             *)
EXTENDS LiquidityOrders

CONSTANTS alice, keeper, usdc, hlp, weth

Providers == {alice, keeper}
OneProvider == {alice}
Keepers == {keeper}
NoKeepers == {}
AllAssets == {usdc, hlp, weth}

Request(asset, amount, fee) == [asset |-> asset, amount |-> amount, executionFee |-> fee]

LateOrNot == {TRUE, FALSE}
Late == {TRUE}

SomeRequests == {Request(usdc, 2, 1), Request(hlp, 1, 1), Request(weth, 1, 1)}
=============================================================================
