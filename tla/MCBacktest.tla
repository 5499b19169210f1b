------------------------------- MODULE MCBacktest -------------------------------
EXTENDS Backtest

CONSTANTS w1

OneWorker == {w1}

================================================================================
