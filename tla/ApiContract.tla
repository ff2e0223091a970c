----------------------------- MODULE ApiContract -----------------------------
(* The operations of the HTTP API that the mutations of the web app call, as *)
(* the generated types declare them: the status of a success and the         *)
(* statuses of the declared failures.  Every declared failure carries the    *)
(* schema ErrorResponse, except 422, which is declared as                    *)
(* HTTPValidationError.  Parameters and bodies are left out.                 *)

(* /v1/account *)
export_account_v1_account_export_get == [ok |-> 200, fails |-> {401}]
delete_account_v1_account_delete == [ok |-> 204, fails |-> {401, 403, 422}]
change_password_v1_account_password_put ==
    [ok |-> 204, fails |-> {401, 403, 422}]
change_email_v1_account_email_put ==
    [ok |-> 200, fails |-> {401, 403, 409, 422, 429}]

(* /v1/auth *)
signup_v1_auth_signup_post == [ok |-> 201, fails |-> {409, 422, 429}]
login_v1_auth_login_post == [ok |-> 200, fails |-> {401, 422, 429}]
logout_v1_auth_logout_post == [ok |-> 204, fails |-> {422}]
verify_email_v1_auth_verify_email_post == [ok |-> 204, fails |-> {400, 422}]
confirm_email_change_v1_auth_email_change_confirm_post ==
    [ok |-> 204, fails |-> {400, 409, 422}]
resend_verification_v1_auth_resend_verification_post ==
    [ok |-> 204, fails |-> {401, 403, 429}]
request_password_reset_v1_auth_password_reset_post ==
    [ok |-> 202, fails |-> {422, 429}]
confirm_password_reset_v1_auth_password_reset_confirm_post ==
    [ok |-> 204, fails |-> {400, 422}]

(* /v1/books *)
create_book_v1_books_post == [ok |-> 201, fails |-> {422}]
delete_book_v1_books__book_id__delete ==
    [ok |-> 204, fails |-> {403, 404, 422}]
update_book_v1_books__book_id__patch ==
    [ok |-> 200, fails |-> {403, 404, 422}]
add_book_monster_v1_books__book_id__monsters__monster_id__put ==
    [ok |-> 204, fails |-> {403, 404, 422}]
remove_book_monster_v1_books__book_id__monsters__monster_id__delete ==
    [ok |-> 204, fails |-> {403, 404, 422}]
add_book_spell_v1_books__book_id__spells__spell_id__put ==
    [ok |-> 204, fails |-> {403, 404, 422}]
remove_book_spell_v1_books__book_id__spells__spell_id__delete ==
    [ok |-> 204, fails |-> {403, 404, 422}]
add_book_item_v1_books__book_id__items__item_id__put ==
    [ok |-> 204, fails |-> {403, 404, 422}]
remove_book_item_v1_books__book_id__items__item_id__delete ==
    [ok |-> 204, fails |-> {403, 404, 422}]
==============================================================================
