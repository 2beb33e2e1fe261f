---------------------------- MODULE MCTradingGate --------------------------
\* Instances of TradingGate: an order of each venue for one user, and a close of
\* the perps position, which reduces and so asks for more leverage than the cap.
EXTENDS TradingGate

CONSTANTS c1, c2, h1

EthBuy == [Blank EXCEPT !.asset = "ETH", !.amount = 2]
PerpsBuy == [Blank EXCEPT !.venue = "perps", !.leverage = 2, !.amount = 2]
ClosePerps ==
    [PerpsBuy EXCEPT !.kind = "close", !.side = "sell", !.tif = "ioc", !.leverage = 3, !.reduceOnly = TRUE]
MCBodies == {EthBuy, PerpsBuy, ClosePerps}
===========================================================================
