------------------------------ MODULE WebClient ------------------------------
(* How the web app turns the answer to a request into something the user     *)
(* sees.  The API client reduces every failure to one error code; the        *)
(* handler of the mutation cache raises a toast for it, unless the mutation  *)
(* opts out or the code is one that a form shows at a field; the form or     *)
(* panel that asked shows what is left.                                      *)
(*                                                                           *)
(* Operators only: WebAccount and WebBooks build their steps from them.      *)
EXTENDS ApiContract, Naturals

(* The declared contract of each mutation of the web app, by the name the    *)
(* app gives the mutation.                                                   *)
AuthContract ==
    [signup |-> signup_v1_auth_signup_post,
     login |-> login_v1_auth_login_post,
     logout |-> logout_v1_auth_logout_post,
     verifyEmail |-> verify_email_v1_auth_verify_email_post,
     resendVerification |-> resend_verification_v1_auth_resend_verification_post,
     requestPasswordReset |-> request_password_reset_v1_auth_password_reset_post,
     resetPassword |->
        confirm_password_reset_v1_auth_password_reset_confirm_post,
     exportAccount |-> export_account_v1_account_export_get,
     deleteAccount |-> delete_account_v1_account_delete,
     changePassword |-> change_password_v1_account_password_put,
     changeEmail |-> change_email_v1_account_email_put,
     confirmEmailChange |->
        confirm_email_change_v1_auth_email_change_confirm_post]

BookContract ==
    [createBook |-> create_book_v1_books_post,
     updateBook |-> update_book_v1_books__book_id__patch,
     deleteBook |-> delete_book_v1_books__book_id__delete]

(* content-membership.ts: one mutation serves the three content types, each  *)
(* at the path its segment names.                                            *)
ContentType == {"monster", "spell", "item"}
addContentToBook ==
    [monster |-> add_book_monster_v1_books__book_id__monsters__monster_id__put,
     spell |-> add_book_spell_v1_books__book_id__spells__spell_id__put,
     item |-> add_book_item_v1_books__book_id__items__item_id__put]
removeContentFromBook ==
    [monster |->
        remove_book_monster_v1_books__book_id__monsters__monster_id__delete,
     spell |-> remove_book_spell_v1_books__book_id__spells__spell_id__delete,
     item |-> remove_book_item_v1_books__book_id__items__item_id__delete]

(* The mutations of books and of their contents.                             *)
BookOp == DOMAIN BookContract \cup {"addContentToBook", "removeContentFromBook"}

(* The operations whose route depends on a live session (CurrentUser).       *)
NeedsSession == BookOp \cup {"logout", "resendVerification", "exportAccount",
                             "deleteAccount", "changePassword", "changeEmail"}

-------------------------------------------------------------------------------
(* Failures                                                                  *)

(* The error codes the handlers give for a declared status.                  *)
DeclaredCodes(op, status) ==
    CASE status = 400 -> {"INVALID_TOKEN"}
      [] status = 401 -> {IF op = "login" THEN "INVALID_CREDENTIALS"
                                          ELSE "UNAUTHENTICATED"}
      [] status = 403 -> {"CSRF_FAILED"} \cup
            (CASE op \in {"deleteAccount", "changePassword", "changeEmail"} ->
                    {"INVALID_PASSWORD"}
               [] op \in BookOp -> {"FORBIDDEN"}
               [] OTHER -> {})
      [] status = 404 -> {"RESOURCE_NOT_FOUND"}
      [] status = 409 -> (CASE op = "signup" -> {"USERNAME_TAKEN", "EMAIL_TAKEN"}
                            [] op = "changeEmail" ->
                                    {"EMAIL_TAKEN", "EMAIL_UNCHANGED"}
                            [] OTHER -> {"EMAIL_TAKEN"})
      [] status = 422 -> {"VALIDATION_ERROR"}
      [] status = 429 -> {"RATE_LIMITED"}

(* A failure as it reaches the client: the status, the schema its body has,  *)
(* and the code in it.  Requests that get no answer have status 0, and a     *)
(* failure the API did not foresee has a body of another shape.              *)
NoAnswer == [status |-> 0, body |-> "none", errorCode |-> "none"]
Unforeseen == [status |-> 500, body |-> "text", errorCode |-> "none"]
Refusal(status, code) ==
    [status |-> status, body |-> "ErrorResponse", errorCode |-> code]

(* A validation failure is declared as HTTPValidationError but sent as an    *)
(* ErrorResponse like the others (_handle_validation_error).                 *)
DeclaredFailures(op, contract) ==
    UNION {{Refusal(s, c) : c \in DeclaredCodes(op, s)} : s \in contract.fails}

(* Without its session, or its CSRF token, a request gets no further.        *)
SessionFailures(op) ==
    IF op \in NeedsSession
    THEN {Refusal(401, "UNAUTHENTICATED"), Refusal(403, "CSRF_FAILED")} ELSE {}

Failures(op, contract) ==
    {NoAnswer, Unforeseen} \cup DeclaredFailures(op, contract)
                           \cup SessionFailures(op)

(* The code of the ApiError a failure becomes.                               *)
toApiError(failure) ==
    CASE failure.body = "ErrorResponse" -> failure.errorCode
      [] failure.body = "HTTPValidationError" -> "validation_error"
      [] OTHER -> "unknown_error"

-------------------------------------------------------------------------------
(* What the user sees of a failure                                           *)

(* Faulty variant: a field error nobody listed.                              *)
INLINE_FIELD_ERROR_CODES_Short ==
    {"USERNAME_TAKEN", "EMAIL_TAKEN", "INVALID_PASSWORD", "validation_error"}

(* Faulty variant: the code the API really sends for a validation failure is *)
(* taken for one that every form shows.                                      *)
INLINE_FIELD_ERROR_CODES_Wide ==
    {"USERNAME_TAKEN", "EMAIL_TAKEN", "EMAIL_UNCHANGED", "INVALID_PASSWORD",
     "validation_error", "VALIDATION_ERROR"}

INLINE_FIELD_ERROR_CODES ==
    {"USERNAME_TAKEN", "EMAIL_TAKEN", "EMAIL_UNCHANGED", "INVALID_PASSWORD",
     "validation_error"}

(* meta.suppressErrorToast: these two panels show the failure themselves.    *)
SuppressErrorToast == {"verifyEmail", "confirmEmailChange"}

(* MutationCache.onError of the provider.                                    *)
Toasts(op, code) ==
    op \notin SuppressErrorToast /\ code \notin INLINE_FIELD_ERROR_CODES

(* The field a form puts the failure at, "none" when it has none for it.     *)
signupFieldForError(code) ==
    CASE code = "USERNAME_TAKEN" -> "username"
      [] code = "EMAIL_TAKEN" -> "email"
      [] OTHER -> "none"
deleteAccountFieldForError(code) ==
    IF code = "INVALID_PASSWORD" THEN "password" ELSE "none"
changePasswordFieldForError(code) ==
    IF code = "INVALID_PASSWORD" THEN "currentPassword" ELSE "none"
changeEmailFieldForError(code) ==
    CASE code = "INVALID_PASSWORD" -> "currentPassword"
      [] code \in {"EMAIL_TAKEN", "EMAIL_UNCHANGED"} -> "newEmail"
      [] OTHER -> "none"

FieldFor(op, code) ==
    CASE op = "signup" -> signupFieldForError(code)
      [] op = "deleteAccount" -> deleteAccountFieldForError(code)
      [] op = "changePassword" -> changePasswordFieldForError(code)
      [] op = "changeEmail" -> changeEmailFieldForError(code)
      [] OTHER -> "none"
==============================================================================
