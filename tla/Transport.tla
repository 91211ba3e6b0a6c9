----------------------------- MODULE Transport -----------------------------
(***************************************************************************)
(* How one request through a proxy fails, and whom the failure is blamed   *)
(* on.  The connect phase wraps its failures as a ProxyDialError; the      *)
(* checkers turn the error of a request into the kind of a                 *)
(* ProxyCheckError.  Only the kind "proxy" kills a proxy's health, so      *)
(* these operators decide which rows of the pool die.  An operator gives   *)
(* the set of errors its code can return, empty when it does not fail.     *)
(***************************************************************************)
EXTENDS Naturals, FiniteSets

Schemes == {"http", "https", "socks5", "socks4"}

(* The step of a request that fails; "address" is a target address the     *)
(* dialer cannot use, "build" a transport that cannot be built.            *)
ProxySteps == {"dial", "proxyTLS", "write", "reply", "refused"}
TargetSteps == {"tls", "status", "body"}
Steps == {"none", "build", "address"} \cup ProxySteps \cup TargetSteps

(* Why it fails: of itself, because a budget inside the request ran out    *)
(* while the caller still waits, or because the caller's context ended.    *)
Ended == {"cancelled", "deadline"}
Causes == {"fault", "stall"} \cup Ended

(* An error: whether its chain holds a ProxyDialError, and which context   *)
(* error errors.Is finds in it.                                            *)
Err(proxy, is) == [proxy |-> proxy, is |-> is]

(* A dial that ran out of its budget is context.DeadlineExceeded to        *)
(* errors.Is, although the caller's context is alive.                      *)
Is(why) == CASE why = "fault" -> "other" [] why = "stall" -> "deadline" [] OTHER -> why

(* An expired deadline of a connection is not a context error; one of a    *)
(* context is: which of the two ends a stalled handshake is a race.        *)
Either(proxy, why) == {Err(proxy, "other"), Err(proxy, Is(why))}

(* The steps that look at the caller's context before they blame.          *)
Checked(why, errs) == IF why \in Ended THEN {Err(FALSE, why)} ELSE errs

(* The TCP dial is blamed without a look at the context.                   *)
httpConnectDial(scheme, step, why) ==
    CASE step = "dial" -> {Err(TRUE, Is(why))}
      [] step = "proxyTLS" /\ scheme = "https" -> Checked(why, Either(TRUE, why))
      [] step \in {"write", "reply"} -> Checked(why, {Err(TRUE, "other")})
      [] step = "refused" -> {Err(TRUE, "other")}
      [] OTHER -> {}

socks4Dial(step, why) ==
    CASE step = "address" -> Either(FALSE, why)
      [] step = "dial" -> {Err(TRUE, Is(why))}
      [] step \in {"write", "reply"} -> Checked(why, {Err(TRUE, "other")})
      [] step = "refused" -> {Err(TRUE, "other")}
      [] OTHER -> {}

(* The SOCKS5 dialer's failures are wrapped whatever they are: an unusable *)
(* address and the caller's ended context too.                             *)
socks5Dial(step, why) ==
    IF step \in {"address"} \cup (ProxySteps \ {"proxyTLS"}) THEN Either(TRUE, why) ELSE {}

(* A connect phase that ends well after the context did is given up,       *)
(* except by SOCKS5.  A failure of the target comes later.                 *)
Dial(scheme, step, why) ==
    LET errs == CASE scheme \in {"http", "https"} -> httpConnectDial(scheme, step, why)
                  [] scheme = "socks4" -> socks4Dial(step, why)
                  [] scheme = "socks5" -> socks5Dial(step, why)
    IN IF errs = {} /\ scheme # "socks5" /\ step \notin TargetSteps
         THEN Checked(why, {}) ELSE errs

(* The handshake with the target runs inside the dial function, and its    *)
(* error is left unwrapped.                                                *)
browserTLSClient(step, why) ==
    IF step \in {"status", "body"} THEN {}
    ELSE Checked(why, IF step = "tls" THEN {Err(FALSE, "other")} ELSE {})

(* net/http may answer with the caller's ended context in place of the     *)
(* dial function's error.                                                  *)
RoundTrip(scheme, step, why) ==
    LET dialled == Dial(scheme, step, why)
        errs == IF dialled # {} THEN dialled ELSE browserTLSClient(step, why)
    IN IF errs = {} THEN {} ELSE errs \cup Checked(why, {})

(* The kinds of a ProxyCheckError.                                         *)
CheckKinds == {"local", "proxy", "target", "deadline", "cancelled"}

classifyCheckError(why, err) ==
    IF "cancelled" \in {err.is, why} THEN "cancelled"
    ELSE IF "deadline" \in {err.is, why} THEN "deadline"
    ELSE IF err.proxy THEN "proxy" ELSE "target"

(* The kinds the destination checker can report.                           *)
Check(scheme, step, why) ==
    LET errs == RoundTrip(scheme, step, why) IN
    IF step = "build" THEN {"local"}
    ELSE IF errs # {} THEN {classifyCheckError(why, e) : e \in errs}
    ELSE CASE step = "status" -> {"target"}
           [] step = "body" -> {classifyCheckError(why, e) : e \in Either(FALSE, why)} \cup {"target"}
           [] OTHER -> {"none"}

(* The health checker blames a bad body on the target whatever the context.*)
HealthCheck(scheme, step, why) ==
    IF step = "body" THEN {"target"} ELSE Check(scheme, step, why)

(* WrapProxyDial: the Lodestone client types a ProxyDialError and leaves   *)
(* every other error alone.                                                *)
WrapProxyDial(err) == IF err.proxy THEN "proxy" ELSE "other"

(* What the connect phase takes for the proxy's failure: a step of the     *)
(* proxy, and an address a SOCKS5 dialer refuses.                          *)
Blamable(scheme, step) == step \in ProxySteps \/ (scheme = "socks5" /\ step = "address")

(* Whom a failure is blamed on.  A check names the proxy only for a step   *)
(* before the target and only while its caller still waits                 *)
(* (classifyCheckError).  A Lodestone request (WrapProxyDial) never names  *)
(* it for the target's TLS, status or body; of a context that ended it     *)
(* knows less than a check: a TCP dial or a SOCKS5 handshake the caller    *)
(* broke off, and a refusal that came too late, are still the proxy's.     *)
BlameIsProven ==
    \A scheme \in Schemes, step \in Steps, why \in Causes :
        /\ "proxy" \in Check(scheme, step, why) \cup HealthCheck(scheme, step, why) =>
              Blamable(scheme, step) /\ why \notin Ended
        /\ \A err \in RoundTrip(scheme, step, why) :
              WrapProxyDial(err) = "proxy" =>
                 /\ Blamable(scheme, step)
                 /\ why \in Ended => scheme = "socks5" \/ step \in {"dial", "refused"}
=============================================================================
