--------------------------- MODULE MCNetworkGate ---------------------------
(* Instances of NetworkGate for TLC, and the files they start from.        *)
EXTENDS NetworkGate, TLC

(* Threads differ in nothing but their identity.                           *)
ThreadSymmetry == Permutations(Threads)

(* Two keys and their wallets; "bad" is a key that does not parse.         *)
TwoKeys == {"k1", "k2"}
TwoAddresses == [k1 |-> "w1", k2 |-> "w2"]
Nothing == [account |-> "", wallet |-> "", key |-> "", url |-> ""]
Complete(k) ==
  [account |-> "a", wallet |-> TwoAddresses[k], key |-> k, url |-> ""]

File(allowed, l, t, m) ==
  [private |-> TRUE, tradingEnabled |-> allowed, network |-> "",
   serverAddr |-> "loopback", frontendOrigin |-> "loopback",
   legacy |-> l, testnet |-> t, mainnet |-> m]

(* Files that may start: no credentials, read-only ones, old settings for  *)
(* testnet alone, old settings that new ones replace in part, and mainnet  *)
(* alone, so that a switch leaves an armed network for one that cannot     *)
(* trade.                                                                  *)
GoodFiles ==
  {File("", Nothing, Nothing, Nothing),
   File("", Complete("k1"), Nothing, Complete("k2")),
   File("true", Complete("k1"), Nothing, Nothing),
   File("true", Complete("k1"), [Complete("k2") EXCEPT !.account = ""],
        Complete("k2")),
   File("true", Nothing, [Nothing EXCEPT !.account = "a"], Complete("k2"))}

(* The same with one setting wrong.                                        *)
ManyFiles ==
  GoodFiles
    \union {[f EXCEPT !.legacy = [Nothing EXCEPT !.url = "mainnet"]] :
              f \in GoodFiles}
    \union {[f EXCEPT !.testnet = [Nothing EXCEPT !.key = "bad"]] :
              f \in GoodFiles}
    \union {[f EXCEPT !.mainnet = e] :
              f \in GoodFiles,
              e \in {[Complete("k2") EXCEPT !.wallet = "w1"],
                     [Complete("k2") EXCEPT !.key = ""],
                     [Complete("k2") EXCEPT !.url = "testnet"],
                     [Nothing EXCEPT !.url = "testnet"]}}
    \union {[f EXCEPT !.network = "mainnet"] : f \in GoodFiles}
    \union {[f EXCEPT !.tradingEnabled = "yes"] : f \in GoodFiles}
    \union {[f EXCEPT !.serverAddr = "public"] : f \in GoodFiles}
    \union {[f EXCEPT !.private = FALSE] : f \in GoodFiles}

(* What the exchanges say of the accounts.                                 *)
ManyRoles == {[testnet |-> "user", mainnet |-> "user"],
              [testnet |-> "subAccount", mainnet |-> "user"],
              [testnet |-> "agent", mainnet |-> "unreachable"]}

(* A file with which both networks may trade.                              *)
OneFile == {File("true", Nothing, Complete("k1"), Complete("k2"))}
OneRole == {[n \in Networks |-> "user"]}
=============================================================================
