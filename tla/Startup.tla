------------------------------- MODULE Startup -------------------------------
(***************************************************************************)
(* From the configuration file to the networks the server offers: what     *)
(* config.Load accepts (backend/internal/config/config.go), and the client *)
(* main binds to each network (backend/cmd/fakemex/main.go).               *)
(*                                                                         *)
(* A file is the record of its settings, "" where one is absent.  Hosts,   *)
(* addresses and URLs are reduced to what the checks tell apart.           *)
(***************************************************************************)
CONSTANTS
  Keys,       (* private keys that parse                                   *)
  AddressOf,  (* the wallet address each of them derives                   *)
  Files,      (* the files a start may find                                *)
  Roles       (* what the exchanges may say of the accounts: their role,   *)
              (* or "unreachable", per network                             *)

Testnet == "testnet"
Mainnet == "mainnet"
Networks == {Testnet, Mainnet}

FirstValue(v, default) == IF v = "" THEN default ELSE v

(* loadFromFile: testnet falls back, setting by setting, to the settings   *)
(* without a network in their name; mainnet never does.  The URLs default  *)
(* to the network's own, and are named after the network they belong to.   *)
Settings(f, n) ==
  LET old(field) == IF n = Testnet THEN f.legacy[field] ELSE ""
  IN  [account |-> FirstValue(f[n].account, old("account")),
       wallet |-> FirstValue(f[n].wallet, old("wallet")),
       key |-> FirstValue(f[n].key, old("key")),
       url |-> FirstValue(f[n].url, FirstValue(old("url"), n))]

HasCredentials(s) == s.account # "" /\ s.wallet # "" /\ s.key # ""
CanTrade(f, n) == f.tradingEnabled = "true" /\ HasCredentials(Settings(f, n))
Derives(key, wallet) == key \in Keys /\ AddressOf[key] = wallet

(* Mutant: the network of the URL is not checked.                          *)
ValidOnAnyUrl(s, n) ==
  s.wallet # "" \/ s.key # "" => s.account # "" /\ Derives(s.key, s.wallet)

(* validateExchangeConfig: the URL is the network's official one; a wallet *)
(* or a key needs the account and the other, and the key is the wallet's.  *)
ValidExchange(s, n) ==
  /\ s.url = n
  /\ s.wallet # "" \/ s.key # "" => s.account # "" /\ Derives(s.key, s.wallet)

(* Load: the file is the owner's alone, it starts on testnet, the server   *)
(* and the page are local, and what may trade somewhere has credentials.   *)
Loads(f) ==
  /\ f.private
  /\ f.tradingEnabled \in {"", "true", "false"}
  /\ FirstValue(f.network, Testnet) = Testnet
  /\ f.serverAddr = "loopback" /\ f.frontendOrigin = "loopback"
  /\ \A n \in Networks : ValidExchange(Settings(f, n), n)
  /\ f.tradingEnabled = "true" => \E n \in Networks : CanTrade(f, n)

(* NewTradingClient: the wallet is checked again, and the exchange must    *)
(* know the account as one that can be traded for.                         *)
ClientOpens(s, role) ==
  /\ Derives(s.key, s.wallet)
  /\ \/ role = "user"
     \/ role \in {"subAccount", "vault"} /\ s.account # "malformed"

(* main: a network that can trade gets a signing client, or there is no    *)
(* start; the others get a client without a key.                           *)
Starts(f, a) ==
  Loads(f) /\ \A n \in Networks :
                CanTrade(f, n) => ClientOpens(Settings(f, n), a[n])

(* A NetworkBinding and its client: the key only where it signs, and the   *)
(* account it signs for where that is not the wallet's own.                *)
Binding(f, a, n) ==
  LET s == Settings(f, n)
      signs == CanTrade(f, n)
  IN  [account |-> s.account,
       url |-> s.url,
       wallet |-> s.wallet,
       configured |-> HasCredentials(s),
       canTrade |-> signs,
       key |-> IF signs THEN s.key ELSE "",
       vault |-> IF signs /\ a[n] \in {"subAccount", "vault"} THEN s.account
                 ELSE ""]

(* The networks of every start that succeeds.                              *)
Started ==
  {[n \in Networks |-> Binding(x[1], x[2], n)] :
     x \in {y \in Files \X Roles : Starts(y[1], y[2])}}
=============================================================================
