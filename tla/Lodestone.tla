----------------------------- MODULE Lodestone -----------------------------
(***************************************************************************)
(* The Lodestone client: one page is requested at most MaxRetries + 1      *)
(* times, and what the attempts answer decides whether the caller sees a   *)
(* page, a typed failure (a dead proxy, a rejecting destination) or an     *)
(* ordinary error.  FetchCharacter and FetchAchievements turn pages into   *)
(* what the census stores.                                                 *)
(***************************************************************************)
EXTENDS Transport, Sequences

CONSTANT MaxRetries

ASSUME MaxRetriesAssumption == MaxRetries \in Nat

(* What one attempt answers: a transport failure, a body cut short, or a   *)
(* status; "challenge" is a 403 that Cloudflare sent.                      *)
Failures == {"dial", "timeout", "reset", "truncated"}
Statuses == {"429", "202", "challenge", "403", "404", "500", "200"}
Responses == Failures \cup Statuses

Attempts == [1 .. MaxRetries + 1 -> Responses]

Retried(r) == r \in {"reset", "truncated"}

StatusOf(r) == IF r = "challenge" THEN "403" ELSE r

(* A 403 carries the challenge header, or the markers of a block page.     *)
isCloudflareChallenge(r) == r = "challenge"

(* Mutant: every 403 is the Lodestone's own.                               *)
Rejected_NotChallenge(r) == r \in {"429", "202"}

(* The destination rejects this identity; the provider is paused.          *)
Rejected(r) == r \in {"429", "202"} \/ (StatusOf(r) = "403" /\ isCloudflareChallenge(r))

ErrorOf(r) ==
    CASE r = "dial" -> WrapProxyDial(Err(TRUE, "other"))
      [] Rejected(r) -> "target"
      [] r \in Failures \ {"dial"} -> "other"
      [] OTHER -> "none"

(* doRequest: the first answer that is not retried decides.                *)
doRequest(rs) ==
    LET decisive == {i \in DOMAIN rs : ~Retried(rs[i])}
        last == IF decisive = {} THEN Len(rs) ELSE CHOOSE i \in decisive :
                                                     \A j \in decisive : i <= j
    IN [error  |-> ErrorOf(rs[last]),
        status |-> IF ErrorOf(rs[last]) = "none" THEN StatusOf(rs[last]) ELSE "",
        sent   |-> last,
        paused |-> Rejected(rs[last])]

(* Mutant: whatever is not a page is a missing character.                  *)
NotFoundStatus_Any(status) == status # "200"

NotFoundStatus(status) == status \in {"404", "403"}

(* A page without a character name is an error; one without a usable race  *)
(* is still a profile, which the service refuses later.                    *)
parseCharacterProfile(page) == IF page = "unreadable" THEN "error" ELSE page

(* FetchCharacter: what the caller sees of an answer and the page it holds.*)
FetchCharacter(answer, page) ==
    IF answer.error # "none" THEN "error"
    ELSE IF NotFoundStatus(answer.status) THEN "absent"
    ELSE IF answer.status = "200" THEN parseCharacterProfile(page) ELSE "error"

(* The achievement list page, the first request of FetchAchievements.      *)
FetchList(answer) ==
    IF answer.error # "none" THEN "error"
    ELSE CASE answer.status = "404" -> "notfound"
           [] answer.status = "403" -> "private"
           [] answer.status = "200" -> "list"
           [] OTHER -> "error"

(* The newest row of the achievement list, 0 if it has none.               *)
extractLatestAchievement(earned) ==
    IF earned = {} THEN 0 ELSE CHOOSE m \in earned : \A n \in earned : n <= m

(* checkSingleAchievement on the detail page of one milestone.             *)
checkSingleAchievement(answer) ==
    IF answer.error # "none" THEN "error"
    ELSE CASE answer.status = "403" -> "private"
           [] answer.status = "200" -> "detail"
           [] OTHER -> "error"

(* The milestone loop of FetchAchievements: requested in ascending order   *)
(* up to the first one that is not earned.                                 *)
EarnedPrefix(missing, earned) ==
    {m \in missing : \A n \in missing : n <= m => n \in earned}
=============================================================================
