----------------------------- MODULE MCOrderApi -----------------------------
(***************************************************************************)
(* Symbols for the model checking of OrderApi: with integers of 25 bits,   *)
(* the hash of BTC-INR is positive and that of ETH-INR is negative.  A     *)
(* space is blank for both languages, a next line for Go only.             *)
(***************************************************************************)
EXTENDS OrderApi

Integers25 == 2 ^ 25

BtcInr == <<66, 84, 67, 45, 73, 78, 82>>
EthInr == <<69, 84, 72, 45, 73, 78, 82>>

TradedSymbols == {BtcInr, EthInr, <<Space>>, <<NextLine>>}
=============================================================================
