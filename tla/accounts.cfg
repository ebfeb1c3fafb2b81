SPECIFICATION SpecAccounts
CONSTANTS
  None = None
  u1 = u1
  u2 = u2
  e1 = e1
  e2 = e2
  Users = {u1, u2}
  Emails = {e1, e2}
  Passwords = {p1, p2, p3}
  Calls = {c1, c2}
  MaxTime = 1
  Lifetime <- Lifetimes
  Owner = u1
  FirstEmail = e1
  FirstPassword = p1
  Budgets <- AccountBudgets
  Nobody = None
  Recipients <- Customers
  Messages = 2
  MaxList = 2
  Emitted = {"password_reset", "order_created"}
  Legacy <- OldRows
  Works <- NotificationWorks
INVARIANTS TypeOK SessionNeedsCurrentPassword ExchangedTokenIsDead VerifiedAddressWasProven SecretsStayInTheMail OneMailPerAttempt
PROPERTIES MessagesAreAnswered
